---- MODULE Spec2Model ----
(***************************************************************************)
(* Model of the log-anomaly query service: the HTTP handler QueryLogs, the *)
(* analyzer AnalyzeLogs with its KL-divergence scoring and ranking, and    *)
(* the ClickHouse client queries it issues.                                *)
(*                                                                         *)
(* float64 values are modelled by a decimal floating point, value =        *)
(* m * 10^e, rounding toward zero.  The KL contributions keep Digits       *)
(* significant digits; next to a count of 1 or more they lose the          *)
(* smoothing constant 1e-10.  The frequencies and relative changes keep    *)
(* 2 * WideLimb digits, enough to keep 1 + 1e-10 apart from 1 as float64   *)
(* does.                                                                   *)
(***************************************************************************)
EXTENDS Integers, Sequences, FiniteSets, TLC

\* ------------------------------------------------------------------ bounds

\* significant decimal digits kept by the model of float64
Digits == 3

\* ------------------------------------------------------- float64 arithmetic

RECURSIVE Pow10(_)
Pow10(n) == IF n <= 0 THEN 1 ELSE 10 * Pow10(n - 1)

\* smallest mantissa of a normal number: mantissas are in Base .. 10*Base-1
Base == Pow10(Digits - 1)

Abs(n) == IF n < 0 THEN -n ELSE n

Sgn(n) == IF n < 0 THEN -1 ELSE IF n > 0 THEN 1 ELSE 0

\* a finite float64: m * 10^e
Num(m, e) == [k |-> "num", m |-> m, e |-> e]

FZero == Num(0, 0)

FInf(s) == [k |-> IF s < 0 THEN "-inf" ELSE "+inf", m |-> 0, e |-> 0]

FNaN == [k |-> "nan", m |-> 0, e |-> 0]

IsFinite(x) == x.k = "num"

RECURSIVE NormUp(_, _)
NormUp(n, e) == IF n >= 10 * Base THEN NormUp(n \div 10, e + 1) ELSE <<n, e>>

RECURSIVE NormDown(_, _)
NormDown(n, e) == IF n < Base THEN NormDown(n * 10, e - 1) ELSE <<n, e>>

\* the float64 nearest (toward zero) to the integer n times 10^e
Normalize(n, e) ==
    IF n = 0 THEN FZero
    ELSE LET a == Abs(n)
             r == IF a >= 10 * Base THEN NormUp(a, e) ELSE NormDown(a, e)
         IN Num(Sgn(n) * r[1], r[2])

\* float64(n) of an unsigned integer n
FromInt(n) == Normalize(n, 0)

FSign(x) == IF x.k = "+inf" THEN 1 ELSE IF x.k = "-inf" THEN -1 ELSE Sgn(x.m)

FNeg(x) ==
    CASE x.k = "num" -> Num(-x.m, x.e)
      [] x.k = "+inf" -> FInf(-1)
      [] x.k = "-inf" -> FInf(1)
      [] OTHER -> FNaN

\* x + y of two finite numbers; the smaller one is absorbed when it lies
\* more than Digits + 1 decimal places below the larger one
AddNum(x, y) ==
    IF x.m = 0 THEN y
    ELSE IF y.m = 0 THEN x
    ELSE LET hi == IF x.e >= y.e THEN x ELSE y
             lo == IF x.e >= y.e THEN y ELSE x
             d == hi.e - lo.e
         IN IF d > Digits + 1 THEN hi
            ELSE Normalize(hi.m * Pow10(d) + lo.m, lo.e)

\* x + y
FAdd(x, y) ==
    CASE x.k = "nan" \/ y.k = "nan" -> FNaN
      [] x.k = "num" /\ y.k = "num" -> AddNum(x, y)
      [] x.k = "num" -> y
      [] y.k = "num" -> x
      [] x.k = y.k -> x
      [] OTHER -> FNaN

\* x - y
FSub(x, y) == FAdd(x, FNeg(y))

\* x * y
FMul(x, y) ==
    CASE x.k = "nan" \/ y.k = "nan" -> FNaN
      [] x.k = "num" /\ y.k = "num" -> Normalize(x.m * y.m, x.e + y.e)
      [] FSign(x) = 0 \/ FSign(y) = 0 -> FNaN
      [] OTHER -> FInf(FSign(x) * FSign(y))

\* x / y; a finite non-zero number over zero is an infinity, 0/0 is NaN
FDiv(x, y) ==
    CASE x.k = "nan" \/ y.k = "nan" -> FNaN
      [] x.k = "num" /\ y.k = "num" ->
            IF y.m = 0
            THEN (IF x.m = 0 THEN FNaN ELSE FInf(Sgn(x.m)))
            ELSE Normalize(Sgn(y.m) * ((x.m * Pow10(Digits)) \div Abs(y.m)),
                           x.e - y.e - Digits)
      [] x.k = "num" -> FZero
      [] y.k = "num" -> FInf(FSign(x) * (IF y.m < 0 THEN -1 ELSE 1))
      [] OTHER -> FNaN

\* x > y; false when either side is NaN
FGt(x, y) ==
    CASE x.k = "nan" \/ y.k = "nan" -> FALSE
      [] x.k = "num" /\ y.k = "num" -> FSign(FSub(x, y)) > 0
      [] x.k = y.k -> FALSE
      [] OTHER -> x.k = "+inf" \/ y.k = "-inf"

\* x < y
FLt(x, y) == FGt(y, x)

\* x >= y
FGe(x, y) == FGt(x, y) \/ (x.k # "nan" /\ x = y)

\* number of halvings that bring m / den into [1, 2)
RECURSIVE Halvings(_, _)
Halvings(m, den) == IF m >= 2 * den THEN 1 + Halvings(m, 2 * den) ELSE 0

RECURSIVE Pow2(_)
Pow2(n) == IF n <= 0 THEN 1 ELSE 2 * Pow2(n - 1)

\* ln(m / Base) in units of 10^-5, for a mantissa m in Base .. 10*Base-1:
\* m / Base = 2^h * z with z in [1, 2), ln z = 2 atanh((z - 1) / (z + 1))
LnMantissa(m) ==
    LET h == Halvings(m, Base)
        den == Base * Pow2(h)
        y == ((m - den) * 100000) \div (m + den)
        y2 == (y * y) \div 100000
        y3 == (y * y2) \div 100000
        y5 == (y3 * y2) \div 100000
        y7 == (y5 * y2) \div 100000
        y9 == (y7 * y2) \div 100000
    IN h * 69315 + 2 * (y + y3 \div 3 + y5 \div 5 + y7 \div 7 + y9 \div 9)

\* math.Log(x): NaN below zero, -Inf at zero
FLog(x) ==
    CASE x.k = "nan" \/ x.k = "-inf" -> FNaN
      [] x.k = "+inf" -> FInf(1)
      [] x.m < 0 -> FNaN
      [] x.m = 0 -> FInf(-1)
      [] OTHER -> Normalize(LnMantissa(x.m) + (x.e + Digits - 1) * 230259, -5)

\* ------------------------------------- float64 arithmetic, wide mantissa

\* The relative changes divide by freqBaseline + smoothing, a sum in which
\* float64 keeps the smoothing constant next to any frequency.  They are
\* therefore computed with a mantissa of two limbs of WideLimb decimal
\* digits: value = (|m| * Limb + lo) * 10^e with the sign of m, rounding
\* toward zero.

\* decimal digits of one limb of the wide mantissa
WideLimb == 6

Limb == Pow10(WideLimb)

\* a finite float64 with a wide mantissa
Wide(m, lo, e) == [k |-> "num", m |-> m, lo |-> lo, e |-> e]

WZero == Wide(0, 0, 0)

WInf(s) == [k |-> IF s < 0 THEN "-inf" ELSE "+inf", m |-> 0, lo |-> 0, e |-> 0]

WNaN == [k |-> "nan", m |-> 0, lo |-> 0, e |-> 0]

\* decimal digits of one step of the long division: the product of a step
\* and a limb stays below 10^9
StepDigits == 9 - WideLimb

Step == Pow10(StepDigits)

\* steps after the first that make up the digits of a mantissa
Steps == (2 * WideLimb + StepDigits - 1) \div StepDigits

\* magnitudes <<hi, lo>>, standing for hi * Limb + lo: a <= b, a + b,
\* a - b (for b <= a), k * a (for k <= Step), a / 10
MLeq(a, b) == a[1] < b[1] \/ (a[1] = b[1] /\ a[2] <= b[2])

MPlus(a, b) == <<a[1] + b[1] + (a[2] + b[2]) \div Limb, (a[2] + b[2]) % Limb>>

MMinus(a, b) ==
    IF a[2] >= b[2] THEN <<a[1] - b[1], a[2] - b[2]>>
    ELSE <<a[1] - b[1] - 1, a[2] + Limb - b[2]>>

MTimes(k, a) == <<k * a[1] + (k * a[2]) \div Limb, (k * a[2]) % Limb>>

MDiv10(a) == <<a[1] \div 10, (a[1] % 10) * (Limb \div 10) + a[2] \div 10>>

\* a / 10^d
MShiftRight(a, d) ==
    IF d <= 0 THEN a
    ELSE IF d >= 2 * WideLimb THEN <<0, 0>>
    ELSE IF d >= WideLimb THEN <<0, a[1] \div Pow10(d - WideLimb)>>
    ELSE <<a[1] \div Pow10(d),
           (a[1] % Pow10(d)) * Pow10(WideLimb - d) + a[2] \div Pow10(d)>>

RECURSIVE WNormUp(_, _)
WNormUp(a, e) == IF a[1] >= Limb THEN WNormUp(MDiv10(a), e + 1) ELSE <<a, e>>

RECURSIVE WNormDown(_, _)
WNormDown(a, e) ==
    IF a[1] = 0 THEN WNormDown(<<a[2], 0>>, e - WideLimb)
    ELSE IF a[1] < Limb \div 10 THEN WNormDown(MTimes(10, a), e - 1)
    ELSE <<a, e>>

\* the float64 nearest (toward zero) to s times the magnitude a times 10^e
WNormalize(s, a, e) ==
    IF s = 0 \/ a = <<0, 0>> THEN WZero
    ELSE LET r == IF a[1] >= Limb THEN WNormUp(a, e) ELSE WNormDown(a, e)
         IN Wide(s * r[1][1], r[1][2], r[2])

\* float64(n) of an unsigned integer n
WFromInt(n) == WNormalize(Sgn(n), <<Abs(n) \div Limb, Abs(n) % Limb>>, 0)

\* a float64 given with Digits digits, with the wide mantissa
Widen(x) ==
    IF x.k = "num" THEN WNormalize(Sgn(x.m), <<0, Abs(x.m)>>, x.e)
    ELSE [k |-> x.k, m |-> 0, lo |-> 0, e |-> 0]

WMag(x) == <<Abs(x.m), x.lo>>

WSign(x) == IF x.k = "+inf" THEN 1 ELSE IF x.k = "-inf" THEN -1 ELSE Sgn(x.m)

WNeg(x) ==
    CASE x.k = "num" -> Wide(-x.m, x.lo, x.e)
      [] x.k = "+inf" -> WInf(-1)
      [] x.k = "-inf" -> WInf(1)
      [] OTHER -> WNaN

\* x + y of two finite numbers: the one with the smaller exponent is
\* shifted to the exponent of the other
WAddNum(x, y) ==
    IF x.m = 0 THEN y
    ELSE IF y.m = 0 THEN x
    ELSE LET hi == IF x.e >= y.e THEN x ELSE y
             lo == IF x.e >= y.e THEN y ELSE x
             a == WMag(hi)
             b == MShiftRight(WMag(lo), hi.e - lo.e)
         IN IF Sgn(hi.m) = Sgn(lo.m) THEN WNormalize(Sgn(hi.m), MPlus(a, b), hi.e)
            ELSE IF MLeq(b, a) THEN WNormalize(Sgn(hi.m), MMinus(a, b), hi.e)
            ELSE WNormalize(Sgn(lo.m), MMinus(b, a), hi.e)

\* x + y
WAdd(x, y) ==
    CASE x.k = "nan" \/ y.k = "nan" -> WNaN
      [] x.k = "num" /\ y.k = "num" -> WAddNum(x, y)
      [] x.k = "num" -> y
      [] y.k = "num" -> x
      [] x.k = y.k -> x
      [] OTHER -> WNaN

\* x - y
WSub(x, y) == WAdd(x, WNeg(y))

\* the first n steps of the long division of r by d, for r < Step * d,
\* appended to q: each step finds the next StepDigits digits c from an
\* estimate that is off by one at most
RECURSIVE LongDivision(_, _, _, _)
LongDivision(r, d, q, n) ==
    IF n = 0 THEN q
    ELSE LET est == r[1] \div d[1]
             top == IF est >= Step - 1 THEN Step - 1 ELSE est + 1
             c == IF MLeq(MTimes(top, d), r) THEN top
                  ELSE IF MLeq(MTimes(top - 1, d), r) THEN top - 1
                  ELSE top - 2
         IN LongDivision(MTimes(Step, MMinus(r, MTimes(c, d))), d,
                         MPlus(MTimes(Step, q), <<0, c>>), n - 1)

\* x / y; a finite non-zero number over zero is an infinity, 0/0 is NaN
WDiv(x, y) ==
    CASE x.k = "nan" \/ y.k = "nan" -> WNaN
      [] x.k = "num" /\ y.k = "num" ->
            IF y.m = 0
            THEN (IF x.m = 0 THEN WNaN ELSE WInf(Sgn(x.m)))
            ELSE IF x.m = 0 THEN WZero
            ELSE WNormalize(Sgn(x.m) * Sgn(y.m),
                            LongDivision(WMag(x), WMag(y), <<0, 0>>, Steps + 1),
                            x.e - y.e - Steps * StepDigits)
      [] x.k = "num" -> WZero
      [] y.k = "num" -> WInf(WSign(x) * (IF y.m < 0 THEN -1 ELSE 1))
      [] OTHER -> WNaN

\* x > y; false when either side is NaN
WGt(x, y) ==
    CASE x.k = "nan" \/ y.k = "nan" -> FALSE
      [] x.k = "num" /\ y.k = "num" -> WSign(WSub(x, y)) > 0
      [] x.k = y.k -> FALSE
      [] OTHER -> x.k = "+inf" \/ y.k = "-inf"

\* x < y
WLt(x, y) == WGt(y, x)

smoothingCoarse == Num(Base, -2 - (Digits - 1))

smoothingNone == FZero

\* const smoothing = 1e-10
smoothing == Num(Base, -10 - (Digits - 1))

\* ------------------------------------------------------------ Go maps

\* the map with no entry: make(map[...]...)
EmptyMap == <<>>

\* m[k] of a Go map: the zero value for an absent key
Lookup(m, k) == IF k \in DOMAIN m THEN m[k] ELSE 0

RECURSIVE SumOver(_, _)
SumOver(m, S) ==
    IF S = {} THEN 0
    ELSE LET k == CHOOSE x \in S : TRUE
         IN m[k] + SumOver(m, S \ {k})

\* for _, count := range counts { total += count }
Total(counts) == SumOver(counts, DOMAIN counts)

AllTemplatesOfCurrent(currentCounts, baselineCounts) == DOMAIN currentCounts

\* allTemplates: the ids of either map
AllTemplates(currentCounts, baselineCounts) ==
    DOMAIN currentCounts \cup DOMAIN baselineCounts

\* len(allTemplates), the number of ids the smoothing is spread over
UniverseSize(currentCounts, baselineCounts) ==
    Cardinality(AllTemplates(currentCounts, baselineCounts))

\* ------------------------------------------------------ kl_divergence

\* pCurrent, pBaseline: (count + smoothing) / (total + smoothing * len(allTemplates))
Probability(count, total, n) ==
    FDiv(FAdd(FromInt(count), smoothing),
         FAdd(FromInt(total), FMul(smoothing, FromInt(n))))

KLTermBaselineWeighted(pCurrent, pBaseline) ==
    FMul(pBaseline, FLog(FDiv(pCurrent, pBaseline)))

KLTermReversed(pCurrent, pBaseline) == FMul(pCurrent, FLog(FDiv(pBaseline, pCurrent)))

\* klContribution := pCurrent * math.Log(pCurrent / pBaseline)
KLTerm(pCurrent, pBaseline) == FMul(pCurrent, FLog(FDiv(pCurrent, pBaseline)))

EmptyCaseBothZero(currentTotal, baselineTotal) == currentTotal = 0 /\ baselineTotal = 0

\* whether the function returns the empty map before scoring
EmptyCase(currentTotal, baselineTotal) == currentTotal = 0 \/ baselineTotal = 0

CalculateKLDivergence(currentCounts, baselineCounts) ==
    LET currentTotal == Total(currentCounts)
        baselineTotal == Total(baselineCounts)
        allTemplates == AllTemplates(currentCounts, baselineCounts)
        n == UniverseSize(currentCounts, baselineCounts)
    IN IF EmptyCase(currentTotal, baselineTotal) THEN EmptyMap
       ELSE [templateID \in allTemplates |->
               KLTerm(Probability(Lookup(currentCounts, templateID), currentTotal, n),
                      Probability(Lookup(baselineCounts, templateID), baselineTotal, n))]

RelativeChangeReversed(freqCurrent, freqBaseline) ==
    WDiv(WSub(freqBaseline, freqCurrent), WAdd(freqBaseline, Widen(smoothing)))

RelativeChangeUnsmoothed(freqCurrent, freqBaseline) ==
    WDiv(WSub(freqCurrent, freqBaseline), freqBaseline)

\* relativeChange := (freqCurrent - freqBaseline) / (freqBaseline + smoothing)
RelativeChange(freqCurrent, freqBaseline) ==
    WDiv(WSub(freqCurrent, freqBaseline), WAdd(freqBaseline, Widen(smoothing)))

\* freqCurrent, freqBaseline: float64(count) / float64(total)
Frequency(count, total) == WDiv(WFromInt(count), WFromInt(total))

CalculateRelativeChanges(currentCounts, baselineCounts) ==
    LET currentTotal == Total(currentCounts)
        baselineTotal == Total(baselineCounts)
        allTemplates == AllTemplates(currentCounts, baselineCounts)
    IN IF EmptyCase(currentTotal, baselineTotal) THEN EmptyMap
       ELSE [templateID \in allTemplates |->
               RelativeChange(
                   Frequency(Lookup(currentCounts, templateID), currentTotal),
                   Frequency(Lookup(baselineCounts, templateID), baselineTotal))]

\* ------------------------------------------------------------ ranking

\* topN := 10
topN == 10

LessAscending(a, b) == FGt(b.klValue, a.klValue)

\* the comparison handed to sort.Slice: i sorts before j iff its klValue is larger
Less(a, b) == FGt(a.klValue, b.klValue)

\* The slices sort.Slice can leave behind for the entries S: every order in
\* which no entry stands before one that sorts before it.  The entries are
\* appended in the iteration order of the map, which Go leaves unspecified,
\* and sort.Slice is not stable, so entries with equal klValue can come out
\* in any order.
RECURSIVE SortedSlices(_)
SortedSlices(S) ==
    IF S = {} THEN {<<>>}
    ELSE UNION {{<<x>> \o rest : rest \in SortedSlices(S \ {x})} :
                  x \in {y \in S : \A z \in S : ~Less(z, y)}}

\* sortedTemplates after the loop over klContributions and sort.Slice
SortedTemplates(klContributions) ==
    SortedSlices({[templateID |-> id, klValue |-> klContributions[id]] :
                    id \in DOMAIN klContributions})

TakeAll(sortedTemplates) == sortedTemplates

TakeTopShort(sortedTemplates) ==
    IF Len(sortedTemplates) >= topN THEN SubSeq(sortedTemplates, 1, topN - 1)
    ELSE sortedTemplates

\* if len(sortedTemplates) > topN { sortedTemplates = sortedTemplates[:topN] }
TakeTop(sortedTemplates) ==
    IF Len(sortedTemplates) > topN THEN SubSeq(sortedTemplates, 1, topN)
    ELSE sortedTemplates

NoneKeptNever(sortedTemplates) == FALSE

\* if len(sortedTemplates) == 0 { return []LogGroup{}, nil }
NoneKept(sortedTemplates) == Len(sortedTemplates) = 0

\* topTemplateIDs: the ids of the kept entries, in order
TemplateIDs(sortedTemplates) ==
    [i \in 1..Len(sortedTemplates) |-> sortedTemplates[i].templateID]

\* whether a group is built for templateID: if logs, ok := representatives[templateID]; ok
HasRepresentatives(representatives, templateID) == templateID \in DOMAIN representatives

RECURSIVE BuildLogGroupsPrepend(_, _, _, _)
BuildLogGroupsPrepend(topTemplateIDs, representatives, relativeChanges, klContributions) ==
    IF topTemplateIDs = <<>> THEN <<>>
    ELSE LET templateID == Head(topTemplateIDs)
             rest == BuildLogGroupsPrepend(Tail(topTemplateIDs), representatives,
                                           relativeChanges, klContributions)
         IN IF HasRepresentatives(representatives, templateID)
            THEN rest \o <<[RepresentativeLogs |-> representatives[templateID],
                            RelativeChange |-> relativeChanges[templateID],
                            KLContribution |-> klContributions[templateID],
                            TemplateID |-> templateID]>>
            ELSE rest

\* the loop that builds logGroups from topTemplateIDs
RECURSIVE BuildLogGroups(_, _, _, _)
BuildLogGroups(topTemplateIDs, representatives, relativeChanges, klContributions) ==
    IF topTemplateIDs = <<>> THEN <<>>
    ELSE LET templateID == Head(topTemplateIDs)
             rest == BuildLogGroups(Tail(topTemplateIDs), representatives,
                                    relativeChanges, klContributions)
         IN IF HasRepresentatives(representatives, templateID)
            THEN <<[RepresentativeLogs |-> representatives[templateID],
                    RelativeChange |-> relativeChanges[templateID],
                    KLContribution |-> klContributions[templateID],
                    TemplateID |-> templateID]>> \o rest
            ELSE rest

\* ------------------------------------------------------------ strings

\* A Go string whose content the program inspects is the tuple of its
\* characters; each of the two emoji of the placeholder lines is written
\* as one symbol.

\* handler: findSubstring
findSubstring(s, substr) ==
    \E i \in 0..(Len(s) - Len(substr)) : SubSeq(s, i + 1, i + Len(substr)) = substr

\* handler: containsStr
containsStr(s, substr) == Len(s) >= Len(substr) /\ findSubstring(s, substr)

\* client: containsMiddle
containsMiddle(s, substr) ==
    \E i \in 0..(Len(s) - Len(substr)) : SubSeq(s, i + 1, i + Len(substr)) = substr

\* client: contains
contains(s, substr) ==
    /\ Len(s) >= Len(substr)
    /\ \/ s = substr
       \/ /\ Len(s) > Len(substr)
          /\ \/ SubSeq(s, 1, Len(substr)) = substr
             \/ SubSeq(s, Len(s) - Len(substr) + 1, Len(s)) = substr
             \/ containsMiddle(s, substr)

\* ------------------------------------------------------------- errors

\* a nil error
NilError == [isNil |-> TRUE, text |-> <<>>]

\* an error whose Error() is text
NewError(text) == [isNil |-> FALSE, text |-> text]

\* client: containsError
containsError(err, substr) == IF err.isNil THEN FALSE ELSE contains(err.text, substr)

\* "UNKNOWN_TABLE"
StrUnknownTable ==
    <<"U", "N", "K", "N", "O", "W", "N", "_", "T", "A", "B", "L", "E">>

\* "failed to connect to ClickHouse: "
StrFailedToConnect ==
    <<"f", "a", "i", "l", "e", "d", " ", "t", "o", " ", "c", "o", "n", "n", "e",
      "c", "t", " ", "t", "o", " ", "C", "l", "i", "c", "k", "H", "o", "u", "s",
      "e", ":", " ">>

\* "table 'log_template_ids' does not exist. Please restart the service to auto-create tables"
StrCountsTableMissing ==
    <<"t", "a", "b", "l", "e", " ", "'", "l", "o", "g", "_", "t", "e", "m", "p",
      "l", "a", "t", "e", "_", "i", "d", "s", "'", " ", "d", "o", "e", "s", " ",
      "n", "o", "t", " ", "e", "x", "i", "s", "t", ".", " ", "P", "l", "e", "a",
      "s", "e", " ", "r", "e", "s", "t", "a", "r", "t", " ", "t", "h", "e", " ",
      "s", "e", "r", "v", "i", "c", "e", " ", "t", "o", " ", "a", "u", "t", "o",
      "-", "c", "r", "e", "a", "t", "e", " ", "t", "a", "b", "l", "e", "s">>

\* "table 'log_template_representatives' does not exist. Please restart the service to auto-create tables"
StrRepresentativesTableMissing ==
    <<"t", "a", "b", "l", "e", " ", "'", "l", "o", "g", "_", "t", "e", "m", "p",
      "l", "a", "t", "e", "_", "r", "e", "p", "r", "e", "s", "e", "n", "t", "a",
      "t", "i", "v", "e", "s", "'", " ", "d", "o", "e", "s", " ", "n", "o", "t",
      " ", "e", "x", "i", "s", "t", ".", " ", "P", "l", "e", "a", "s", "e", " ",
      "r", "e", "s", "t", "a", "r", "t", " ", "t", "h", "e", " ", "s", "e", "r",
      "v", "i", "c", "e", " ", "t", "o", " ", "a", "u", "t", "o", "-", "c", "r",
      "e", "a", "t", "e", " ", "t", "a", "b", "l", "e", "s">>

\* texts of errors that come from outside the program: the driver, the
\* network, the request context
\* "dial tcp: connect: connection refused"
TextConnectionRefused ==
    <<"d", "i", "a", "l", " ", "t", "c", "p", ":", " ", "c", "o", "n", "n", "e",
      "c", "t", ":", " ", "c", "o", "n", "n", "e", "c", "t", "i", "o", "n", " ",
      "r", "e", "f", "u", "s", "e", "d">>

\* "read: i/o timeout"
TextIOTimeout ==
    <<"r", "e", "a", "d", ":", " ", "i", "/", "o", " ", "t", "i", "m", "e", "o",
      "u", "t">>

\* "code: 516, message: Authentication failed"
TextAuthFailed ==
    <<"c", "o", "d", "e", ":", " ", "5", "1", "6", ",", " ", "m", "e", "s", "s",
      "a", "g", "e", ":", " ", "A", "u", "t", "h", "e", "n", "t", "i", "c", "a",
      "t", "i", "o", "n", " ", "f", "a", "i", "l", "e", "d">>

\* "code: 60, message: UNKNOWN_TABLE"
TextUnknownTable ==
    <<"c", "o", "d", "e", ":", " ", "6", "0", ",", " ", "m", "e", "s", "s", "a",
      "g", "e", ":", " ", "U", "N", "K", "N", "O", "W", "N", "_", "T", "A", "B",
      "L", "E">>

\* "code: 62, message: Syntax error"
TextSyntaxError ==
    <<"c", "o", "d", "e", ":", " ", "6", "2", ",", " ", "m", "e", "s", "s", "a",
      "g", "e", ":", " ", "S", "y", "n", "t", "a", "x", " ", "e", "r", "r", "o",
      "r">>

\* "context canceled"
TextContextCanceled ==
    <<"c", "o", "n", "t", "e", "x", "t", " ", "c", "a", "n", "c", "e", "l", "e",
      "d">>

\* "context deadline exceeded"
TextDeadlineExceeded ==
    <<"c", "o", "n", "t", "e", "x", "t", " ", "d", "e", "a", "d", "l", "i", "n",
      "e", " ", "e", "x", "c", "e", "e", "d", "e", "d">>

\* "dial tcp: lookup clickhouse: no such host"
TextNoSuchHost ==
    <<"d", "i", "a", "l", " ", "t", "c", "p", ":", " ", "l", "o", "o", "k", "u",
      "p", " ", "c", "l", "i", "c", "k", "h", "o", "u", "s", "e", ":", " ", "n",
      "o", " ", "s", "u", "c", "h", " ", "h", "o", "s", "t">>

\* "code: 81, message: Database hover does not exist"
TextUnknownDatabase ==
    <<"c", "o", "d", "e", ":", " ", "8", "1", ",", " ", "m", "e", "s", "s", "a",
      "g", "e", ":", " ", "D", "a", "t", "a", "b", "a", "s", "e", " ", "h", "o",
      "v", "e", "r", " ", "d", "o", "e", "s", " ", "n", "o", "t", " ", "e", "x",
      "i", "s", "t">>

\* ------------------------------------------------------ clickhouse client

\* NewClient: db.Ping() decides; a failed ping is wrapped
NewClient(ping) ==
    IF ping.isNil THEN [connected |-> TRUE, err |-> NilError]
    ELSE [connected |-> FALSE, err |-> NewError(StrFailedToConnect \o ping.text)]

\* the error GetTemplateCounts returns when QueryContext failed with err
CountsQueryError(err) ==
    IF containsError(err, StrUnknownTable) THEN NewError(StrCountsTableMissing) ELSE err

\* the error GetRepresentativeLogs returns when QueryContext failed with err
RepresentativesQueryError(err) ==
    IF containsError(err, StrUnknownTable) THEN NewError(StrRepresentativesTableMissing)
    ELSE err

\* the WHERE clause of GetTemplateCounts: timestamp >= ? AND timestamp < ?
InWindow(timestamp, startTime, endTime) == timestamp >= startTime /\ timestamp < endTime

RECURSIVE SumRows(_, _)
SumRows(rows, S) ==
    IF S = {} THEN 0
    ELSE LET r == CHOOSE x \in S : TRUE
         IN rows[r] + SumRows(rows, S \ {r})

\* count(*) ... GROUP BY template_id over the rows of log_template_ids;
\* rows maps <<template_id, timestamp>> to the number of such rows
GetTemplateCounts(rows, startTime, endTime) ==
    LET hit == {r \in DOMAIN rows : rows[r] > 0 /\ InWindow(r[2], startTime, endTime)}
        ids == {r[1] : r \in hit}
    IN [id \in ids |-> SumRows(rows, {r \in hit : r[1] = id})]

\* GetRepresentativeLogs over the rows of log_template_representatives:
\* no query for no ids, else the rows with template_id IN (templateIDs)
GetRepresentativeLogs(table, templateIDs) ==
    IF Len(templateIDs) = 0 THEN EmptyMap
    ELSE [id \in {x \in DOMAIN table : \E i \in 1..Len(templateIDs) : templateIDs[i] = x}
            |-> table[id]]

\* "doesn't exist"
StrDoesntExist ==
    <<"d", "o", "e", "s", "n", "'", "t", " ", "e", "x", "i", "s", "t">>

\* "error checking table '"
StrErrorChecking ==
    <<"e", "r", "r", "o", "r", " ", "c", "h", "e", "c", "k", "i", "n", "g", " ",
      "t", "a", "b", "l", "e", " ", "'">>

\* "failed to verify table '"
StrFailedToVerify ==
    <<"f", "a", "i", "l", "e", "d", " ", "t", "o", " ", "v", "e", "r", "i", "f",
      "y", " ", "t", "a", "b", "l", "e", " ", "'">>

\* "' after creation: "
StrAfterCreation ==
    <<"'", " ", "a", "f", "t", "e", "r", " ", "c", "r", "e", "a", "t", "i", "o",
      "n", ":", " ">>

\* "log_template_ids"
StrTableIDs ==
    <<"l", "o", "g", "_", "t", "e", "m", "p", "l", "a", "t", "e", "_", "i", "d",
      "s">>

\* "log_template_representatives"
StrTableRepresentatives ==
    <<"l", "o", "g", "_", "t", "e", "m", "p", "l", "a", "t", "e", "_", "r", "e",
      "p", "r", "e", "s", "e", "n", "t", "a", "t", "i", "v", "e", "s">>

\* "failed to read schema file at schema/clickhouse_schema.sql: open schema/clickhouse_schema.sql: no such file or directory"
TextSchemaFile ==
    <<"f", "a", "i", "l", "e", "d", " ", "t", "o", " ", "r", "e", "a", "d", " ",
      "s", "c", "h", "e", "m", "a", " ", "f", "i", "l", "e", " ", "a", "t", " ",
      "s", "c", "h", "e", "m", "a", "/", "c", "l", "i", "c", "k", "h", "o", "u",
      "s", "e", "_", "s", "c", "h", "e", "m", "a", ".", "s", "q", "l", ":", " ",
      "o", "p", "e", "n", " ", "s", "c", "h", "e", "m", "a", "/", "c", "l", "i",
      "c", "k", "h", "o", "u", "s", "e", "_", "s", "c", "h", "e", "m", "a", ".",
      "s", "q", "l", ":", " ", "n", "o", " ", "s", "u", "c", "h", " ", "f", "i",
      "l", "e", " ", "o", "r", " ", "d", "i", "r", "e", "c", "t", "o", "r", "y">>

\* VerifyTables: requiredTables, in the order they are checked
requiredTables == <<StrTableIDs, StrTableRepresentatives>>

\* VerifyTables: whether the error of a check says that the table is missing
TableMissing(err) ==
    containsError(err, StrUnknownTable) \/ containsError(err, StrDoesntExist)

\* fmt.Errorf("error checking table '%s': %w", tableName, err)
CheckError(i, err) ==
    NewError(StrErrorChecking \o requiredTables[i] \o <<"'", ":", " ">> \o err.text)

\* fmt.Errorf("failed to verify table '%s' after creation: %w", tableName, err)
RecheckError(i, err) ==
    NewError(StrFailedToVerify \o requiredTables[i] \o StrAfterCreation \o err.text)

\* the smallest member of a non-empty set of numbers
Least(S) == CHOOSE i \in S : \A j \in S : i <= j

\* Client.VerifyTables, given the errors of its check of each table, of
\* createTables and of the second check of each table: the first check
\* that fails for another reason than a missing table ends it; missing
\* tables are created and checked again
ClientVerifyTables(checks, created, rechecks) ==
    LET failed == {i \in 1..Len(requiredTables) :
                      ~checks[i].isNil /\ ~TableMissing(checks[i])}
        missingTables == {i \in 1..Len(requiredTables) :
                             ~checks[i].isNil /\ TableMissing(checks[i])}
        unverified == {i \in missingTables : ~rechecks[i].isNil}
    IN IF failed # {} THEN CheckError(Least(failed), checks[Least(failed)])
       ELSE IF missingTables = {} THEN NilError
       ELSE IF ~created.isNil THEN created
       ELSE IF unverified # {}
       THEN RecheckError(Least(unverified), rechecks[Least(unverified)])
       ELSE NilError

\* ------------------------------------------------------------ time

\* time.Duration is an int64 of nanoseconds, far narrower than the range of
\* time.Time: MaxDuration stands for its largest value
MaxDuration == 3

\* Time.Sub: the difference, or the largest (smallest) Duration when the
\* difference does not fit
Sub(t, u) ==
    IF t - u > MaxDuration THEN MaxDuration
    ELSE IF t - u < -MaxDuration THEN -MaxDuration
    ELSE t - u

\* Time.Add
Add(t, d) == t + d

\* Time.Before
Before(t, u) == t < u

\* AnalyzeLogs: the baseline window of the current window
BaselineWindow(startTime, endTime) ==
    LET windowDuration == Sub(endTime, startTime)
        baselineEnd == startTime
        baselineStart == Add(baselineEnd, -windowDuration)
    IN [startTime |-> baselineStart, endTime |-> baselineEnd]

\* ------------------------------------------------------------ handler

NewHandlerUnset(ping) ==
    LET client == NewClient(ping)
    IN [analyzer |-> client.err.isNil, analyzerError |-> NilError]

\* NewHandler: a handler is made whether or not the analyzer could be
NewHandler(ping) ==
    LET client == NewClient(ping)
    IN IF ~client.err.isNil THEN [analyzer |-> FALSE, analyzerError |-> client.err]
       ELSE [analyzer |-> TRUE, analyzerError |-> NilError]

\* Handler.VerifyTables: the stored error of a handler without analyzer, else
\* what the analyzer's client returns
HandlerVerifyTables(hasAnalyzer, storedError, clientError) ==
    IF ~hasAnalyzer THEN storedError ELSE clientError

writeJSON(status, data) == [status |-> status, body |-> data]

writeJSONError(status, error, message) ==
    writeJSON(status, [error |-> error, message |-> message, code |-> status])

\* req.Org == "" || req.Dashboard == "" || req.PanelTitle == "" || req.MetricName == ""
MissingFields(r) ==
    r.Org = "" \/ r.Dashboard = "" \/ r.PanelTitle = "" \/ r.MetricName = ""

TimeRangeNotAfter(r) == ~Before(r.EndTime, r.StartTime)

\* req.StartTime.Before(req.EndTime)
TimeRangeValid(r) == Before(r.StartTime, r.EndTime)

\* the response of the checks QueryLogs makes before it analyzes, or
\* status 0 when the request passes them all
Rejection(r) ==
    IF r.method # "POST"
    THEN writeJSONError(405, "Method not allowed", "Only POST is allowed")
    ELSE IF ~r.decoded
    THEN writeJSONError(400, "Invalid request", "json: cannot decode body")
    ELSE IF MissingFields(r)
    THEN writeJSONError(400, "Invalid request", "Missing required fields")
    ELSE IF ~TimeRangeValid(r)
    THEN writeJSONError(400, "Invalid time range", "Start time must be before end time")
    ELSE writeJSON(0, [none |-> TRUE])

\* "Connection refused"
StrConnectionRefused ==
    <<"C", "o", "n", "n", "e", "c", "t", "i", "o", "n", " ", "r", "e", "f", "u",
      "s", "e", "d">>

\* "connect"
StrConnect ==
    <<"c", "o", "n", "n", "e", "c", "t">>

\* "timeout"
StrTimeout ==
    <<"t", "i", "m", "e", "o", "u", "t">>

\* "does not exist"
StrDoesNotExist ==
    <<"d", "o", "e", "s", " ", "n", "o", "t", " ", "e", "x", "i", "s", "t">>

\* "Error details: "
StrErrorDetails ==
    <<"E", "r", "r", "o", "r", " ", "d", "e", "t", "a", "i", "l", "s", ":", " ">>

\* "error"
StrError ==
    <<"e", "r", "r", "o", "r">>

\* a float64 literal with one decimal place, given in tenths
Tenths(n) == Normalize(n, -1)

\* the groups returned when the error text names a connection problem
MockGroups ==
    <<[RepresentativeLogs |->
         <<<<"[warning]", " ", " ", "M", "O", "C", "K", " ", "D", "A", "T", "A",
             ":", " ", "C", "l", "i", "c", "k", "H", "o", "u", "s", "e", " ", "d",
             "a", "t", "a", "b", "a", "s", "e", " ", "i", "s", " ", "n", "o", "t",
             " ", "c", "o", "n", "n", "e", "c", "t", "e", "d">>,
           <<"[memo]", " ", "E", "x", "a", "m", "p", "l", "e", " ", "a", "n", "o",
             "m", "a", "l", "y", ":", " ", "E", "R", "R", "O", "R", ":", " ", "O",
             "u", "t", " ", "o", "f", " ", "m", "e", "m", "o", "r", "y", " ", "o",
             "n", " ", "n", "o", "d", "e", "-", "3">>,
           <<"[memo]", " ", "E", "x", "a", "m", "p", "l", "e", " ", "a", "n", "o",
             "m", "a", "l", "y", ":", " ", "W", "A", "R", "N", "I", "N", "G", ":",
             " ", "H", "i", "g", "h", " ", "C", "P", "U", " ", "u", "s", "a", "g",
             "e", " ", "d", "e", "t", "e", "c", "t", "e", "d", " ", "(", "9", "5",
             "%", ")">>,
           <<"[memo]", " ", "E", "x", "a", "m", "p", "l", "e", " ", "a", "n", "o",
             "m", "a", "l", "y", ":", " ", "C", "R", "I", "T", "I", "C", "A", "L",
             ":", " ", "D", "i", "s", "k", " ", "s", "p", "a", "c", "e", " ", "b",
             "e", "l", "o", "w", " ", "5", "%">>>>,
       RelativeChange |-> Widen(Tenths(25)),
       KLContribution |-> Tenths(8),
       TemplateID |-> <<"m", "o", "c", "k", "_", "e", "r", "r", "o", "r", "_", "t", "e", "m",
             "p", "l", "a", "t", "e">>],
      [RepresentativeLogs |->
         <<<<"[memo]", " ", "E", "x", "a", "m", "p", "l", "e", " ", "p", "a", "t",
             "t", "e", "r", "n", ":", " ", "C", "o", "n", "n", "e", "c", "t", "i",
             "o", "n", " ", "t", "i", "m", "e", "o", "u", "t", " ", "a", "f", "t",
             "e", "r", " ", "3", "0", "s">>,
           <<"[memo]", " ", "E", "x", "a", "m", "p", "l", "e", " ", "p", "a", "t",
             "t", "e", "r", "n", ":", " ", "R", "e", "t", "r", "y", "i", "n", "g",
             " ", "c", "o", "n", "n", "e", "c", "t", "i", "o", "n", " ", "a", "t",
             "t", "e", "m", "p", "t", " ", "3", "/", "5">>>>,
       RelativeChange |-> Widen(Tenths(12)),
       KLContribution |-> Tenths(4),
       TemplateID |-> <<"m", "o", "c", "k", "_", "w", "a", "r", "n", "i", "n", "g", "_", "t",
             "e", "m", "p", "l", "a", "t", "e">>],
      [RepresentativeLogs |->
         <<<<"[memo]", " ", "E", "x", "a", "m", "p", "l", "e", " ", "i", "n", "f",
             "o", ":", " ", "S", "e", "r", "v", "i", "c", "e", " ", "s", "t", "a",
             "r", "t", "e", "d", " ", "s", "u", "c", "c", "e", "s", "s", "f", "u",
             "l", "l", "y">>,
           <<"[memo]", " ", "E", "x", "a", "m", "p", "l", "e", " ", "i", "n", "f",
             "o", ":", " ", "H", "e", "a", "l", "t", "h", " ", "c", "h", "e", "c",
             "k", " ", "p", "a", "s", "s", "e", "d">>>>,
       RelativeChange |-> Widen(Tenths(3)),
       KLContribution |-> Tenths(1),
       TemplateID |-> <<"m", "o", "c", "k", "_", "i", "n", "f", "o", "_", "t", "e", "m", "p",
             "l", "a", "t", "e">>]>>

\* the group returned when the error text names a missing table
TablesMissingGroups ==
    <<[RepresentativeLogs |->
         <<<<"[warning]", " ", " ", "R", "e", "q", "u", "i", "r", "e", "d", " ",
             "t", "a", "b", "l", "e", "s", " ", "m", "i", "s", "s", "i", "n", "g",
             ".", " ", "P", "l", "e", "a", "s", "e", " ", "r", "e", "s", "t", "a",
             "r", "t", " ", "t", "h", "e", " ", "s", "e", "r", "v", "i", "c", "e",
             " ", "t", "o", " ", "a", "u", "t", "o", "-", "c", "r", "e", "a", "t",
             "e", " ", "t", "a", "b", "l", "e", "s", ".">>,
           <<"[memo]", " ", "M", "O", "C", "K", " ", "D", "A", "T", "A", ":", " ",
             "T", "h", "e", "s", "e", " ", "a", "r", "e", " ", "e", "x", "a", "m",
             "p", "l", "e", " ", "l", "o", "g", "s", " ", "s", "h", "o", "w", "n",
             " ", "b", "e", "c", "a", "u", "s", "e", " ", "t", "a", "b", "l", "e",
             "s", " ", "d", "o", "n", "'", "t", " ", "e", "x", "i", "s", "t", " ",
             "y", "e", "t">>>>,
       RelativeChange |-> WZero,
       KLContribution |-> FZero,
       TemplateID |-> StrError]>>

GenericErrorGroupsUnmarked(err) ==
    <<[RepresentativeLogs |-> <<err.text>>,
       RelativeChange |-> WZero,
       KLContribution |-> FZero,
       TemplateID |-> <<"t", "0", "1">>]>>

GenericErrorGroupsNoDetails(err) ==
    <<[RepresentativeLogs |->
         <<<<"[warning]", " ", " ", "H", "o", "v", "e", "r", " ", "l", "o", "g",
             " ", "d", "a", "t", "a", "b", "a", "s", "e", " ", "e", "n", "c", "o",
             "u", "n", "t", "e", "r", "e", "d", " ", "a", "n", " ", "e", "r", "r",
             "o", "r", ".", " ", "P", "l", "e", "a", "s", "e", " ", "c", "o", "n",
             "t", "a", "c", "t", " ", "s", "u", "p", "p", "o", "r", "t", ".">>,
           StrErrorDetails>>,
       RelativeChange |-> WZero,
       KLContribution |-> FZero,
       TemplateID |-> StrError]>>

\* the group returned for any other error
GenericErrorGroups(err) ==
    <<[RepresentativeLogs |->
         <<<<"[warning]", " ", " ", "H", "o", "v", "e", "r", " ", "l", "o", "g",
             " ", "d", "a", "t", "a", "b", "a", "s", "e", " ", "e", "n", "c", "o",
             "u", "n", "t", "e", "r", "e", "d", " ", "a", "n", " ", "e", "r", "r",
             "o", "r", ".", " ", "P", "l", "e", "a", "s", "e", " ", "c", "o", "n",
             "t", "a", "c", "t", " ", "s", "u", "p", "p", "o", "r", "t", ".">>,
           StrErrorDetails \o err.text>>,
       RelativeChange |-> WZero,
       KLContribution |-> FZero,
       TemplateID |-> StrError]>>

\* the first test of the error text in QueryLogs
IsConnectivity(text) ==
    \/ containsStr(text, StrConnectionRefused)
    \/ containsStr(text, StrConnect)
    \/ containsStr(text, StrTimeout)

\* the second test of the error text in QueryLogs
IsTablesMissing(text) ==
    \/ containsStr(text, StrDoesNotExist)
    \/ containsStr(text, StrUnknownTable)

FallbackGroupsNoGeneric(err) ==
    IF IsConnectivity(err.text) THEN MockGroups
    ELSE IF IsTablesMissing(err.text) THEN TablesMissingGroups
    ELSE <<>>

FallbackGroupsSchemaFirst(err) ==
    IF IsTablesMissing(err.text) THEN TablesMissingGroups
    ELSE IF IsConnectivity(err.text) THEN MockGroups
    ELSE GenericErrorGroups(err)

\* QueryLogs, if err != nil: the groups that replace the analysis
FallbackGroups(err) ==
    IF IsConnectivity(err.text) THEN MockGroups
    ELSE IF IsTablesMissing(err.text) THEN TablesMissingGroups
    ELSE GenericErrorGroups(err)

ToAPIWithIDs(groups) ==
    [i \in 1..Len(groups) |->
        [representative_logs |-> groups[i].RepresentativeLogs,
         relative_change |-> groups[i].RelativeChange,
         template_id |-> groups[i].TemplateID]]

\* QueryLogs: the conversion to the API response format
ToAPI(groups) ==
    [i \in 1..Len(groups) |->
        [representative_logs |-> groups[i].RepresentativeLogs,
         relative_change |-> groups[i].RelativeChange]]

\* QueryLogs from the return of AnalyzeLogs on: the groups it goes on
\* with, and the response it writes
FinalGroups(groups, err) == IF ~err.isNil THEN FallbackGroups(err) ELSE groups

Response(groups, err) == writeJSON(200, [log_groups |-> ToAPI(FinalGroups(groups, err))])

\* ------------------------------------------------------------- state

VARIABLES
    pinged,             \* what db.Ping() returned when the handler was made
    analyzer,           \* Handler.analyzer is not nil
    analyzerError,      \* Handler.analyzerError
    rows,               \* store: rows of log_template_ids, by <<template_id, timestamp>>
    table,              \* store: log_template_representatives, by template_id
    req,                \* QueryLogs: the request being served
    ctx,                \* QueryLogs: the state of the request's context
    calls,              \* the storage calls issued for the request, in order
    err,                \* QueryLogs: the error of the analysis
    analyzed,           \* what AnalyzeLogs returned to QueryLogs, if it was called
    resp,               \* QueryLogs: the response written
    verified,           \* what VerifyTables returned, if it was called
    currentCounts,      \* AnalyzeLogs: the counts of the current window
    baselineCounts,     \* AnalyzeLogs: the counts of the baseline window
    representatives,    \* AnalyzeLogs: what GetRepresentativeLogs returned
    klContributions,    \* AnalyzeLogs: CalculateKLDivergence's result
    relativeChanges,    \* AnalyzeLogs: CalculateRelativeChanges' result
    topTemplateIDs,     \* AnalyzeLogs: the ids kept by the ranking
    logGroups,          \* the groups AnalyzeLogs returned, or their replacement
    prevGroups,         \* the groups an earlier run returned for the same inputs
    runs,               \* number of AnalyzeLogs runs over the same inputs
    flights,            \* the QueryLogs calls served at the same time, each with its locals
    pc                  \* position of the request, or of the run

handlerVars == <<pinged, analyzer, analyzerError>>

storeVars == <<rows, table>>

requestVars == <<req, ctx, calls, err, analyzed, resp, verified>>

analysisVars == <<currentCounts, baselineCounts, representatives, klContributions,
                  relativeChanges, topTemplateIDs, logGroups>>

vars == <<handlerVars, storeVars, requestVars, analysisVars, prevGroups, runs, flights, pc>>

\* ------------------------------------------------------------ bounds

\* template ids of the exhaustively enumerated count maps
SmallTemplates == 2

\* largest count of the exhaustively enumerated count maps
MaxCount == 1

\* largest number of templates of the patterned count maps
MaxTemplates == 11

\* runs of AnalyzeLogs over one input
MaxRuns == 2

\* QueryLogs calls served at the same time
MaxFlights == 2

\* template ids with rows in the store
StoreTemplates == 3

\* ------------------------------------------------- inputs of the analysis

Digit(d) == <<"0", "1", "2", "3", "4", "5", "6", "7", "8", "9">>[d + 1]

\* the template id "tNN" of number t
TemplateID(t) == <<"t", Digit((t \div 10) % 10), Digit(t % 10)>>

\* the number of template id "tNN"
TemplateNumber(id) == CHOOSE t \in 0..99 : TemplateID(t) = id

TemplateSet(n) == {TemplateID(t) : t \in 1..n}

\* every map from a subset of the ids t01..tn to counts 0..c
AllCountMaps(n, c) == UNION {[D -> 0..c] : D \in SUBSET TemplateSet(n)}

\* count maps over many templates, by pattern v
PatternCurrent(v, t) ==
    CASE v = 1 -> t
      [] v = 2 -> t % 4
      [] OTHER -> IF t <= 4 THEN (t + 1) \div 2 ELSE t - 2

PatternBaseline(v, n, t) ==
    CASE v = 1 -> n + 1 - t
      [] v = 2 -> (t \div 4) % 4
      [] OTHER -> 1

Patterns == 1..3

PatternedInputs ==
    {[current |-> [id \in TemplateSet(n) |-> PatternCurrent(v, TemplateNumber(id))],
      baseline |-> [id \in TemplateSet(n) |-> PatternBaseline(v, n, TemplateNumber(id))]] :
        n \in (topN - 1)..MaxTemplates, v \in Patterns}

SmallInputs ==
    {[current |-> c, baseline |-> b] :
        c \in AllCountMaps(SmallTemplates, MaxCount),
        b \in AllCountMaps(SmallTemplates, MaxCount)}

\* count maps over t01..t03 in which every template has the same share of
\* the events in both windows: the current counts are k times the baseline
\* counts 1, 2 and 0
ScaledInputs ==
    {[current |-> [id \in TemplateSet(3) |-> k * (TemplateNumber(id) % 3)],
      baseline |-> [id \in TemplateSet(3) |-> TemplateNumber(id) % 3]] :
        k \in 1..(MaxCount + 1)}

CountInputs == SmallInputs \cup PatternedInputs \cup ScaledInputs

\* the i-th stored example line of template t: "log tNN.i"
ExampleLine(t, i) == <<"l", "o", "g", " ">> \o TemplateID(t) \o <<".", Digit(i % 10)>>

ExampleLines(t, n) == [i \in 1..n |-> ExampleLine(t, i)]

\* contents of log_template_representatives, which are also the mappings
\* GetRepresentativeLogs can return: for every id one line; for no id; for
\* the even ids only, 0, 1 or 2 lines (none for t02)
RepresentativeInputs ==
    LET ids == 1..MaxTemplates
    IN {[id \in {TemplateID(t) : t \in ids} |-> ExampleLines(TemplateNumber(id), 1)],
        EmptyMap,
        [id \in {TemplateID(t) : t \in {x \in ids : x % 2 = 0}} |->
            ExampleLines(TemplateNumber(id), ((TemplateNumber(id) \div 2) + 2) % 3)]}

\* ------------------------------------------------------- the store

\* timestamps of requests: 0 is the zero time.Time a request without
\* start_time or end_time decodes to
MaxTime == MaxDuration + 1

Times == 0..MaxTime

\* timestamps of stored rows: baselines reach back before the zero time,
\* as far as the longest window is long
RowTimes == (-MaxTime)..MaxTime

\* contents of log_template_ids, by pattern w: no row; a different number of
\* rows per template and timestamp; the same rows at every timestamp; rows
\* of many templates at the timestamps 0 and 1 only, t rows of template t
\* at 0 and the more rows at 1 the smaller t
RowsPattern(w, t, timestamp) ==
    CASE w = 1 -> 0
      [] w = 2 -> (t + timestamp) % 3
      [] w = 3 -> t
      [] OTHER -> IF timestamp = 0 THEN t
                  ELSE IF timestamp = 1 THEN MaxTemplates + 1 - t
                  ELSE 0

\* the templates with rows under pattern w
RowsTemplates(w) == IF w <= 3 THEN TemplateSet(StoreTemplates) ELSE TemplateSet(MaxTemplates)

RowsInputs ==
    {[r \in RowsTemplates(w) \X RowTimes |->
         RowsPattern(w, TemplateNumber(r[1]), r[2])] : w \in 1..4}

\* how db.Ping() can end when the handler is made
PingOutcomes ==
    {NilError, NewError(TextConnectionRefused), NewError(TextAuthFailed),
     NewError(TextUnknownDatabase)}

\* the errors a query can fail with while its context is live
QueryFailures ==
    {NewError(TextConnectionRefused), NewError(TextIOTimeout),
     NewError(TextNoSuchHost), NewError(TextUnknownTable),
     NewError(TextSyntaxError)}

\* the errors a query fails with once its context is done: ctx.Err(), or
\* for a deadline also the timeout of the connection the deadline was set on
ContextErrors(c) ==
    IF c = "canceled" THEN {NewError(TextContextCanceled)}
    ELSE {NewError(TextDeadlineExceeded), NewError(TextIOTimeout)}

\* --------------------------------------------------------- requests

NoRequest ==
    [method |-> "", decoded |-> FALSE, Org |-> "", Dashboard |-> "",
     PanelTitle |-> "", MetricName |-> "", StartTime |-> 0, EndTime |-> 0]

NoResponse == writeJSON(0, [none |-> TRUE])

\* the requests: one that is not a POST, one whose body does not decode,
\* and every decoded body; an absent string decodes to "", an absent time
\* to the zero time
Requests ==
    {[NoRequest EXCEPT !.method = "GET"], [NoRequest EXCEPT !.method = "POST"]}
    \cup
    {[method |-> "POST", decoded |-> TRUE, Org |-> o, Dashboard |-> d,
      PanelTitle |-> p, MetricName |-> m, StartTime |-> s, EndTime |-> e] :
        o \in {"", "org"}, d \in {"", "dashboard"}, p \in {"", "panel"},
        m \in {"", "metric"}, s \in Times, e \in Times}

\* a storage call as issued: err becomes the error it returns
CountsCall(startTime, endTime) ==
    [op |-> "GetTemplateCounts", startTime |-> startTime, endTime |-> endTime,
     templateIDs |-> <<>>, err |-> NilError]

RepresentativesCall(templateIDs) ==
    [op |-> "GetRepresentativeLogs", startTime |-> 0, endTime |-> 0,
     templateIDs |-> templateIDs, err |-> NilError]

\* AnalyzeLogs was not called
NotAnalyzed == [called |-> FALSE, groups |-> <<>>, err |-> NilError]

ErrorReturnWrapped(e) ==
    [called |-> TRUE, groups |-> <<>>,
     err |-> NewError(<<"a", "n", "a", "l", "y", "z", "e", ":", " ">> \o e.text)]

\* AnalyzeLogs: return nil, err
ErrorReturn(e) == [called |-> TRUE, groups |-> <<>>, err |-> e]

\* AnalyzeLogs: return logGroups, nil
GroupsReturn(groups) == [called |-> TRUE, groups |-> groups, err |-> NilError]

\* VerifyTables was not called
NotVerified == [called |-> FALSE, queried |-> FALSE, err |-> NilError]

\* how a check of a table by VerifyTables can end
CheckOutcomes == {NilError, NewError(TextUnknownTable), NewError(TextConnectionRefused)}

\* how createTables can end
CreateOutcomes == {NilError, NewError(TextSchemaFile)}

\* ------------------------------------------- the analysis on given inputs

NoAnalysis ==
    /\ currentCounts = EmptyMap
    /\ baselineCounts = EmptyMap
    /\ representatives = EmptyMap
    /\ klContributions = EmptyMap
    /\ relativeChanges = EmptyMap
    /\ topTemplateIDs = <<>>
    /\ logGroups = <<>>

NoRun == prevGroups = <<>> /\ runs = 0

Flights == 1..MaxFlights

\* a QueryLogs call that has not arrived: its locals before their first
\* assignment
NoFlight ==
    [pc |-> "idle", alongside |-> FALSE, req |-> NoRequest, calls |-> <<>>,
     baselineCounts |-> EmptyMap, klContributions |-> EmptyMap,
     relativeChanges |-> EmptyMap, topTemplateIDs |-> <<>>, resp |-> NoResponse]

NoFlights == flights = [i \in Flights |-> NoFlight]

IdleRequest ==
    /\ req = NoRequest
    /\ ctx = "live"
    /\ calls = <<>>
    /\ err = NilError
    /\ analyzed = NotAnalyzed
    /\ resp = NoResponse
    /\ verified = NotVerified

\* AnalyzeLogs from the scoring on (log_analyzer.go 73-135), given what the
\* three storage calls returned
InitRank ==
    /\ pinged = NilError
    /\ analyzer = TRUE
    /\ analyzerError = NilError
    /\ rows = EmptyMap
    /\ table = EmptyMap
    /\ IdleRequest
    /\ \E in \in CountInputs :
          /\ currentCounts = in.current
          /\ baselineCounts = in.baseline
    /\ representatives \in RepresentativeInputs
    /\ klContributions = EmptyMap
    /\ relativeChanges = EmptyMap
    /\ topTemplateIDs = <<>>
    /\ logGroups = <<>>
    /\ NoRun
    /\ NoFlights
    /\ pc = "ready"

AnalyzeRun ==
    /\ pc \in {"ready", "returned"}
    /\ runs < MaxRuns
    /\ LET kl == CalculateKLDivergence(currentCounts, baselineCounts)
           rel == CalculateRelativeChanges(currentCounts, baselineCounts)
       IN /\ klContributions' = kl
          /\ relativeChanges' = rel
          /\ \E sortedTemplates \in SortedTemplates(klContributions') :
                LET ids == TemplateIDs(TakeTop(sortedTemplates))
                IN /\ topTemplateIDs' = ids
                   /\ logGroups' = BuildLogGroups(ids, representatives, relativeChanges',
                                                  klContributions')
    /\ prevGroups' = logGroups
    /\ runs' = runs + 1
    /\ pc' = "returned"
    /\ UNCHANGED <<handlerVars, storeVars, flights, requestVars,
                   currentCounts, baselineCounts, representatives>>

NextRank == AnalyzeRun

SpecRank == InitRank /\ [][NextRank]_vars

\* ------------------------------------------------------- the handler

\* the state after NewHandler, before any request
Init ==
    /\ pinged \in PingOutcomes
    /\ analyzer = NewHandler(pinged).analyzer
    /\ analyzerError = NewHandler(pinged).analyzerError
    /\ rows \in RowsInputs
    /\ table \in RepresentativeInputs
    /\ IdleRequest
    /\ NoAnalysis
    /\ NoRun
    /\ NoFlights
    /\ pc = "idle"

\* QueryLogs ends: the response is written
Respond(groups, e) ==
    /\ err' = e
    /\ logGroups' = FinalGroups(groups, e)
    /\ resp' = Response(groups, e)
    /\ pc' = "done"

\* AnalyzeLogs returns r to QueryLogs, which ends
Return(r) ==
    /\ analyzed' = r
    /\ Respond(r.groups, r.err)

CallFailsAndRetries(e) ==
    calls' = Append([calls EXCEPT ![Len(calls)].err = e],
                    [calls[Len(calls)] EXCEPT !.err = NilError])

\* the storage call in flight returns the error e
CallFails(e) == calls' = [calls EXCEPT ![Len(calls)].err = e]

\* QueryLogs up to its first storage call: the checks of the request, then
\* the stored error of a handler without analyzer, or AnalyzeLogs up to the
\* query of the baseline window
QueryLogs ==
    /\ pc = "idle"
    /\ \E r \in Requests :
          /\ req' = r
          /\ IF Rejection(r).status # 0
             THEN /\ resp' = Rejection(r)
                  /\ pc' = "done"
                  /\ UNCHANGED <<calls, err, analyzed, logGroups>>
             ELSE IF ~analyzer
             THEN /\ Respond(<<>>, analyzerError)
                  /\ UNCHANGED <<calls, analyzed>>
             ELSE LET baseline == BaselineWindow(r.StartTime, r.EndTime)
                  IN /\ calls' = <<CountsCall(baseline.startTime, baseline.endTime)>>
                     /\ pc' = "baseline"
                     /\ UNCHANGED <<err, analyzed, resp, logGroups>>
    /\ UNCHANGED <<handlerVars, storeVars, flights, verified, ctx, currentCounts, baselineCounts,
                   representatives, klContributions, relativeChanges,
                   topTemplateIDs, prevGroups, runs>>

\* the request's context is cancelled, or its deadline passes, while a
\* storage call is in flight
Cancel ==
    /\ pc \in {"baseline", "current", "representatives"}
    /\ ctx = "live"
    /\ ctx' \in {"canceled", "deadline"}
    /\ UNCHANGED <<handlerVars, storeVars, flights, verified, req, calls, err, analyzed, resp,
                   analysisVars, prevGroups, runs, pc>>

\* how the query in flight can fail: with the context's error once the
\* context is done, else with an error of the driver, seen by QueryContext
\* (stage "query") or while the rows are read (stage "rows")
Failures ==
    IF ctx # "live" THEN {[stage |-> "query", err |-> e] : e \in ContextErrors(ctx)}
    ELSE {[stage |-> s, err |-> e] : s \in {"query", "rows"}, e \in QueryFailures}

\* the baseline query fails: AnalyzeLogs returns the error
BaselineFails ==
    /\ pc = "baseline"
    /\ \E f \in Failures :
          LET e == IF f.stage = "query" THEN CountsQueryError(f.err) ELSE f.err
          IN CallFails(e) /\ Return(ErrorReturn(e))
    /\ UNCHANGED <<handlerVars, storeVars, flights, verified, req, ctx, currentCounts,
                   baselineCounts, representatives, klContributions,
                   relativeChanges, topTemplateIDs, prevGroups, runs>>

\* the baseline query returns: AnalyzeLogs queries the current window
BaselineReturns ==
    /\ pc = "baseline"
    /\ ctx = "live"
    /\ baselineCounts' = GetTemplateCounts(rows, calls[1].startTime, calls[1].endTime)
    /\ calls' = Append(calls, CountsCall(req.StartTime, req.EndTime))
    /\ pc' = "current"
    /\ UNCHANGED <<handlerVars, storeVars, flights, verified, req, ctx, err, analyzed, resp,
                   currentCounts, representatives, klContributions,
                   relativeChanges, topTemplateIDs, logGroups, prevGroups, runs>>

\* the query of the current window fails: AnalyzeLogs returns the error
CurrentFails ==
    /\ pc = "current"
    /\ \E f \in Failures :
          LET e == IF f.stage = "query" THEN CountsQueryError(f.err) ELSE f.err
          IN CallFails(e) /\ Return(ErrorReturn(e))
    /\ UNCHANGED <<handlerVars, storeVars, flights, verified, req, ctx, currentCounts,
                   baselineCounts, representatives, klContributions,
                   relativeChanges, topTemplateIDs, prevGroups, runs>>

\* the query of the current window returns: AnalyzeLogs scores and ranks
\* the templates, returns no group when none is scored, and else asks for
\* the representative logs of the kept ids
CurrentReturns ==
    /\ pc = "current"
    /\ ctx = "live"
    /\ LET counts == GetTemplateCounts(rows, req.StartTime, req.EndTime)
           kl == CalculateKLDivergence(counts, baselineCounts)
           rel == CalculateRelativeChanges(counts, baselineCounts)
       IN /\ currentCounts' = counts
          /\ klContributions' = kl
          /\ relativeChanges' = rel
          /\ \E sortedTemplates \in SortedTemplates(klContributions') :
                LET kept == TakeTop(sortedTemplates)
                IN IF NoneKept(kept)
                   THEN /\ Return(GroupsReturn(<<>>))
                        /\ UNCHANGED <<calls, topTemplateIDs>>
                   ELSE /\ topTemplateIDs' = TemplateIDs(kept)
                        /\ calls' = Append(calls, RepresentativesCall(TemplateIDs(kept)))
                        /\ pc' = "representatives"
                        /\ UNCHANGED <<err, analyzed, resp, logGroups>>
    /\ UNCHANGED <<handlerVars, storeVars, flights, verified, req, ctx, baselineCounts,
                   representatives, prevGroups, runs>>

\* the query of the representative logs fails: AnalyzeLogs returns the error
RepresentativesFail ==
    /\ pc = "representatives"
    /\ \E f \in Failures :
          LET e == IF f.stage = "query" THEN RepresentativesQueryError(f.err)
                   ELSE f.err
          IN CallFails(e) /\ Return(ErrorReturn(e))
    /\ UNCHANGED <<handlerVars, storeVars, flights, verified, req, ctx, currentCounts,
                   baselineCounts, representatives, klContributions,
                   relativeChanges, topTemplateIDs, prevGroups, runs>>

\* the query of the representative logs returns: AnalyzeLogs builds and
\* returns the groups
RepresentativesReturn ==
    /\ pc = "representatives"
    /\ ctx = "live"
    /\ LET found == GetRepresentativeLogs(table, topTemplateIDs)
       IN /\ representatives' = found
          /\ Return(GroupsReturn(BuildLogGroups(topTemplateIDs, found,
                                                relativeChanges, klContributions)))
    /\ UNCHANGED <<handlerVars, storeVars, flights, verified, req, ctx, calls, currentCounts,
                   baselineCounts, klContributions, relativeChanges,
                   topTemplateIDs, prevGroups, runs>>

\* VerifyTables, called between requests: a handler without analyzer
\* returns its stored error and queries nothing; else the client checks the
\* two tables
VerifyTables ==
    /\ pc = "idle"
    /\ \E checks \in [1..Len(requiredTables) -> CheckOutcomes],
          created \in CreateOutcomes,
          rechecks \in [1..Len(requiredTables) -> CheckOutcomes] :
          verified' =
              [called |-> TRUE,
               queried |-> analyzer,
               err |-> HandlerVerifyTables(analyzer, analyzerError,
                           ClientVerifyTables(checks, created, rechecks))]
    /\ pc' = "done"
    /\ UNCHANGED <<handlerVars, storeVars, flights, req, ctx, calls, err, analyzed, resp,
                   analysisVars, prevGroups, runs>>

\* the handler is ready for the next call
NextRequest ==
    /\ pc = "done"
    /\ req' = NoRequest
    /\ ctx' = "live"
    /\ calls' = <<>>
    /\ err' = NilError
    /\ analyzed' = NotAnalyzed
    /\ resp' = NoResponse
    /\ currentCounts' = EmptyMap
    /\ baselineCounts' = EmptyMap
    /\ representatives' = EmptyMap
    /\ klContributions' = EmptyMap
    /\ relativeChanges' = EmptyMap
    /\ topTemplateIDs' = <<>>
    /\ logGroups' = <<>>
    /\ verified' = NotVerified
    /\ pc' = "idle"
    /\ UNCHANGED <<handlerVars, storeVars, flights, prevGroups, runs>>

Next ==
    \/ QueryLogs
    \/ Cancel
    \/ BaselineFails
    \/ BaselineReturns
    \/ CurrentFails
    \/ CurrentReturns
    \/ RepresentativesFail
    \/ RepresentativesReturn
    \/ VerifyTables
    \/ NextRequest

Spec == Init /\ [][Next]_vars

\* ------------------------------------------- calls served at the same time

\* net/http serves every request in a goroutine of its own, all through the
\* one Handler registered for /query_logs.  The calls share the handler's
\* fields, set by NewHandler and read only, and the store; everything else
\* is a local variable of QueryLogs or of AnalyzeLogs.

FrameOfLast(fl, i) == fl[MaxFlights]

\* the local variables of call i; the calls are numbered as they arrive
Frame(fl, i) == fl[i]

Arrived(f) == f.pc # "idle"

InFlight(f) == f.pc \notin {"idle", "done"}

\* the requests of the calls: the same fields with three time ranges, one
\* of them empty
FlightRequests ==
    {[method |-> "POST", decoded |-> TRUE, Org |-> "org", Dashboard |-> "dashboard",
      PanelTitle |-> "panel", MetricName |-> "metric", StartTime |-> 1, EndTime |-> e] :
        e \in 1..3}

\* the error a query of a call fails with
FlightFailures == {NewError(TextSyntaxError)}

\* what QueryLogs answers on err
ErrorResponse(e) == Response(<<>>, e)

\* call i arrives: QueryLogs up to its first storage call
FlightStarts(i) ==
    LET f == Frame(flights, i)
    IN /\ f.pc = "idle"
       /\ i > 1 => Arrived(flights[i - 1])
       /\ \E r \in FlightRequests :
             LET along == \E j \in Flights \ {i} : InFlight(flights[j])
                 baseline == BaselineWindow(r.StartTime, r.EndTime)
             IN flights' =
                   IF Rejection(r).status # 0
                   THEN [flights EXCEPT ![i].req = r, ![i].alongside = along,
                                        ![i].resp = Rejection(r), ![i].pc = "done"]
                   ELSE IF ~analyzer
                   THEN [flights EXCEPT ![i].req = r, ![i].alongside = along,
                                        ![i].resp = ErrorResponse(analyzerError),
                                        ![i].pc = "done"]
                   ELSE [flights EXCEPT ![i].req = r, ![i].alongside = along,
                                        ![i].calls = <<CountsCall(baseline.startTime,
                                                                  baseline.endTime)>>,
                                        ![i].pc = "baseline"]
       /\ UNCHANGED <<handlerVars, storeVars, requestVars, analysisVars, prevGroups,
                      runs, pc>>

\* a query of call i fails with e: AnalyzeLogs returns the error and
\* QueryLogs answers with the fallback
FlightFails(i, f, e) ==
    flights' = [flights EXCEPT ![i].calls = [f.calls EXCEPT ![Len(f.calls)].err = e],
                               ![i].resp = ErrorResponse(e),
                               ![i].pc = "done"]

FlightBaselineFails(i) ==
    LET f == Frame(flights, i)
    IN /\ f.pc = "baseline"
       /\ \E e \in FlightFailures : FlightFails(i, f, CountsQueryError(e))
       /\ UNCHANGED <<handlerVars, storeVars, requestVars, analysisVars, prevGroups,
                      runs, pc>>

FlightBaselineReturns(i) ==
    LET f == Frame(flights, i)
    IN /\ f.pc = "baseline"
       /\ flights' =
             [flights EXCEPT
                 ![i].baselineCounts =
                     GetTemplateCounts(rows, f.calls[1].startTime, f.calls[1].endTime),
                 ![i].calls = Append(f.calls, CountsCall(f.req.StartTime, f.req.EndTime)),
                 ![i].pc = "current"]
       /\ UNCHANGED <<handlerVars, storeVars, requestVars, analysisVars, prevGroups,
                      runs, pc>>

FlightCurrentFails(i) ==
    LET f == Frame(flights, i)
    IN /\ f.pc = "current"
       /\ \E e \in FlightFailures : FlightFails(i, f, CountsQueryError(e))
       /\ UNCHANGED <<handlerVars, storeVars, requestVars, analysisVars, prevGroups,
                      runs, pc>>

\* the query of the current window of call i returns: scoring and ranking
FlightCurrentReturns(i) ==
    LET f == Frame(flights, i)
        counts == GetTemplateCounts(rows, f.calls[2].startTime, f.calls[2].endTime)
        kl == CalculateKLDivergence(counts, f.baselineCounts)
        rel == CalculateRelativeChanges(counts, f.baselineCounts)
    IN /\ f.pc = "current"
       /\ \E sortedTemplates \in SortedTemplates(kl) :
             LET kept == TakeTop(sortedTemplates)
             IN flights' =
                   IF NoneKept(kept)
                   THEN [flights EXCEPT ![i].klContributions = kl,
                                        ![i].relativeChanges = rel,
                                        ![i].resp = Response(<<>>, NilError),
                                        ![i].pc = "done"]
                   ELSE [flights EXCEPT ![i].klContributions = kl,
                                        ![i].relativeChanges = rel,
                                        ![i].topTemplateIDs = TemplateIDs(kept),
                                        ![i].calls =
                                            Append(f.calls,
                                                   RepresentativesCall(TemplateIDs(kept))),
                                        ![i].pc = "representatives"]
       /\ UNCHANGED <<handlerVars, storeVars, requestVars, analysisVars, prevGroups,
                      runs, pc>>

FlightRepresentativesFail(i) ==
    LET f == Frame(flights, i)
    IN /\ f.pc = "representatives"
       /\ \E e \in FlightFailures : FlightFails(i, f, RepresentativesQueryError(e))
       /\ UNCHANGED <<handlerVars, storeVars, requestVars, analysisVars, prevGroups,
                      runs, pc>>

FlightRepresentativesReturn(i) ==
    LET f == Frame(flights, i)
        found == GetRepresentativeLogs(table, f.topTemplateIDs)
    IN /\ f.pc = "representatives"
       /\ flights' =
             [flights EXCEPT
                 ![i].resp = Response(BuildLogGroups(f.topTemplateIDs, found,
                                                     f.relativeChanges,
                                                     f.klContributions), NilError),
                 ![i].pc = "done"]
       /\ UNCHANGED <<handlerVars, storeVars, requestVars, analysisVars, prevGroups,
                      runs, pc>>

\* the handler after NewHandler, a store, and no call yet
InitConcurrent ==
    /\ pinged \in {NilError, NewError(TextConnectionRefused)}
    /\ analyzer = NewHandler(pinged).analyzer
    /\ analyzerError = NewHandler(pinged).analyzerError
    /\ rows = [r \in TemplateSet(SmallTemplates) \X RowTimes |->
                  RowsPattern(2, TemplateNumber(r[1]), r[2])]
    /\ table = [id \in TemplateSet(SmallTemplates) |->
                   ExampleLines(TemplateNumber(id), 1)]
    /\ IdleRequest
    /\ NoAnalysis
    /\ NoRun
    /\ NoFlights
    /\ pc = "idle"

NextConcurrent ==
    \E i \in Flights :
       \/ FlightStarts(i)
       \/ FlightBaselineFails(i)
       \/ FlightBaselineReturns(i)
       \/ FlightCurrentFails(i)
       \/ FlightCurrentReturns(i)
       \/ FlightRepresentativesFail(i)
       \/ FlightRepresentativesReturn(i)

SpecConcurrent == InitConcurrent /\ [][NextConcurrent]_vars

\* ------------------------------------------------------------ claims

Returned == pc = "returned"

SeqRange(q) == {q[i] : i \in 1..Len(q)}

Min(a, b) == IF a < b THEN a ELSE b

GroupIDs == [i \in 1..Len(logGroups) |-> logGroups[i].TemplateID]

Done == pc = "done"

\* a request that passed every check of QueryLogs
Valid(r) == Rejection(r).status = 0

\* the template ids of the groups QueryLogs makes up
ReservedTemplateIDs ==
    {StrError} \cup {MockGroups[i].TemplateID : i \in 1..Len(MockGroups)}

\* C1: a valid request whose storage call failed, or that met a handler
\* without analyzer, is answered with status 200 and a non-empty list of
\* made-up groups, never with an error response.
C1_StorageFailureDegrades ==
    (Done /\ Valid(req) /\ (~analyzer \/ ~err.isNil)) =>
        /\ resp.status = 200
        /\ Len(resp.body.log_groups) >= 1
        /\ Len(resp.body.log_groups) = Len(logGroups)
        /\ \A i \in 1..Len(logGroups) : logGroups[i].TemplateID \in ReservedTemplateIDs

\* a request answered after its third storage call failed with an error
\* that names neither a connection nor a table
C1_Witness ==
    /\ Done
    /\ analyzer
    /\ Len(calls) = 3
    /\ ~err.isNil
    /\ ~IsConnectivity(err.text)
    /\ ~IsTablesMissing(err.text)
    /\ resp.status = 200

\* C2: a request whose context was cancelled, or whose deadline passed,
\* while a storage call was in flight ends with an error surfaced to the
\* caller and not with status 200 and made-up groups.
C2_CancellationSurfaced == (Done /\ ctx # "live") => resp.status # 200

\* C3: a decoded request with an empty identity field, or whose start_time
\* is not strictly before its end_time, is answered with status 400, an
\* error category and a message; no group is made up and no storage call
\* is issued for it.
C3_InvalidRejected ==
    (/\ Done
     /\ req.method = "POST"
     /\ req.decoded
     /\ \/ req.Org = "" \/ req.Dashboard = "" \/ req.PanelTitle = ""
        \/ req.MetricName = "" \/ req.StartTime >= req.EndTime) =>
        /\ resp.status = 400
        /\ resp.body.error # ""
        /\ resp.body.message # ""
        /\ logGroups = <<>>
        /\ calls = <<>>

\* a request with all four fields whose start_time equals its end_time,
\* rejected by a handler that has an analyzer
C3_Witness ==
    /\ Done
    /\ analyzer
    /\ req.decoded
    /\ ~MissingFields(req)
    /\ req.StartTime = req.EndTime
    /\ resp.status = 400

\* C4: the baseline window AnalyzeLogs queries for a current window [s, e)
\* ends at s, is as long as the current window and starts before s.
C4_BaselineWindow ==
    Len(calls) >= 1 =>
        /\ calls[1].endTime = req.StartTime
        /\ calls[1].endTime - calls[1].startTime = req.EndTime - req.StartTime
        /\ calls[1].startTime < req.StartTime

\* C5: the log groups a successful AnalyzeLogs returns are ordered by
\* non-increasing kl_contribution: each group's kl_contribution is greater
\* than or equal to that of the group after it.
C5_GroupsDescending ==
    Returned =>
        \A i \in 1..(Len(logGroups) - 1) :
            FGe(logGroups[i].KLContribution, logGroups[i + 1].KLContribution)

\* a run that returned two groups with different kl_contribution
C5_Witness ==
    /\ Returned
    /\ \E i \in 1..(Len(logGroups) - 1) :
          FGt(logGroups[i].KLContribution, logGroups[i + 1].KLContribution)

\* C6: the ranking keeps exactly min(10, n) of the n scored templates, no
\* template left out has a kl_contribution strictly greater than a kept
\* one, and with n <= 10 every scored template is kept.
C6_TopSelection ==
    Returned =>
        LET scored == DOMAIN klContributions
            n == Cardinality(scored)
            kept == SeqRange(topTemplateIDs)
        IN /\ Len(topTemplateIDs) = Min(10, n)
           /\ Cardinality(kept) = Len(topTemplateIDs)
           /\ kept \subseteq scored
           /\ \A u \in scored \ kept : \A k \in kept :
                 ~FGt(klContributions[u], klContributions[k])
           /\ (n <= 10 => kept = scored)

\* a run that scored more than 10 templates and left one out whose
\* kl_contribution is smaller than a kept one's
C6_Witness ==
    /\ Returned
    /\ Cardinality(DOMAIN klContributions) > 10
    /\ Len(topTemplateIDs) = 10
    /\ \E u \in DOMAIN klContributions \ SeqRange(topTemplateIDs) :
          \E k \in SeqRange(topTemplateIDs) :
             FGt(klContributions[k], klContributions[u])

\* C7: two runs of AnalyzeLogs over the same count maps and the same
\* representative logs return the same ordered sequence of groups, also
\* when templates tie in kl_contribution.
C7_Deterministic == runs >= 2 => logGroups = prevGroups

\* C8: every log group a successful AnalyzeLogs returns has at least one
\* representative log line, whatever mapping the fetch returned.
C8_GroupsHaveLogs ==
    Returned =>
        \A i \in 1..Len(logGroups) : Len(logGroups[i].RepresentativeLogs) >= 1

\* C9: the ids of the returned groups are the kept ids that are keys of the
\* representative-log mapping, in ranking order; a kept id absent from the
\* mapping has no group; each group carries the logs, the kl_contribution
\* and the relative_change of its own id.
C9_GroupsFollowRanking ==
    Returned =>
        /\ GroupIDs = SelectSeq(topTemplateIDs, LAMBDA id : id \in DOMAIN representatives)
        /\ \A i \in 1..Len(logGroups) :
              LET g == logGroups[i]
              IN /\ g.RepresentativeLogs = representatives[g.TemplateID]
                 /\ g.KLContribution = klContributions[g.TemplateID]
                 /\ g.RelativeChange = relativeChanges[g.TemplateID]

\* a run that dropped a kept id without representative logs between two
\* ids that got a group
C9_Witness ==
    /\ Returned
    /\ Len(logGroups) >= 2
    /\ \E i, j, k \in 1..Len(topTemplateIDs) :
          /\ i < j /\ j < k
          /\ topTemplateIDs[i] \in DOMAIN representatives
          /\ topTemplateIDs[j] \notin DOMAIN representatives
          /\ topTemplateIDs[k] \in DOMAIN representatives

\* C10: when the counts of the current map or of the baseline map sum to 0
\* (no entry, or only entries with count 0), CalculateKLDivergence and
\* CalculateRelativeChanges both return the empty map.
C10_EmptyOnZeroTotal ==
    (Returned /\ (Total(currentCounts) = 0 \/ Total(baselineCounts) = 0)) =>
        /\ klContributions = EmptyMap
        /\ relativeChanges = EmptyMap

\* a run over a current map whose entries all have count 0, against a
\* baseline with events
C10_Witness ==
    /\ Returned
    /\ DOMAIN currentCounts # {}
    /\ Total(currentCounts) = 0
    /\ Total(baselineCounts) > 0
    /\ klContributions = EmptyMap

\* "mock_"
StrMockPrefix ==
    <<"m", "o", "c", "k", "_">>

\* "MOCK DATA"
StrMockData ==
    <<"M", "O", "C", "K", " ", "D", "A", "T", "A">>

\* "Example"
StrExample ==
    <<"E", "x", "a", "m", "p", "l", "e">>

IsPrefix(p, s) == Len(p) <= Len(s) /\ SubSeq(s, 1, Len(p)) = p

Occurs(sub, s) == \E i \in 1..(Len(s) - Len(sub) + 1) : SubSeq(s, i, i + Len(sub) - 1) = sub

\* a group that shows it is made up: by its template id, or by a line that
\* says so
Marked(g) ==
    \/ g.TemplateID = StrError
    \/ IsPrefix(StrMockPrefix, g.TemplateID)
    \/ \E k \in 1..Len(g.RepresentativeLogs) :
          \/ Occurs(StrMockData, g.RepresentativeLogs[k])
          \/ Occurs(<<"[warning]">>, g.RepresentativeLogs[k])

\* a group built from the store: its id or one of its lines is a stored one
FromStore(g) ==
    \/ g.TemplateID \in DOMAIN table
    \/ \E id \in DOMAIN table : \E k \in 1..Len(g.RepresentativeLogs) :
          \E j \in 1..Len(table[id]) : g.RepresentativeLogs[k] = table[id][j]

\* C11: every group QueryLogs goes on with after a storage failure, of
\* whatever category, is marked as made up (template id "error" or
\* "mock_...", or a line with a placeholder marker), and none of them is
\* built from the store.
C11_FallbackMarked ==
    (Done /\ Valid(req) /\ ~err.isNil) =>
        \A i \in 1..Len(logGroups) : Marked(logGroups[i]) /\ ~FromStore(logGroups[i])

\* a request whose second count query failed on a missing table, after the
\* first had returned counts from the store
C11_Witness ==
    /\ Done
    /\ Len(calls) = 2
    /\ baselineCounts # EmptyMap
    /\ ~err.isNil
    /\ IsTablesMissing(err.text)
    /\ ~IsConnectivity(err.text)
    /\ Len(logGroups) = 1

\* the store cannot be reached: no analyzer could be made when the handler
\* was, or a storage call of the request failed on the network
StoreUnreachable ==
    \/ ~analyzer
    \/ /\ ~err.isNil
       /\ err.text \in {TextConnectionRefused, TextIOTimeout, TextNoSuchHost}

\* a group of the response with a line that says "MOCK DATA" or "Example"
Labelled(g) ==
    \E k \in 1..Len(g.representative_logs) :
       \/ Occurs(StrMockData, g.representative_logs[k])
       \/ Occurs(StrExample, g.representative_logs[k])

\* C12: when the store cannot be reached, at startup or during the analysis
\* of a valid request, every group of the response has a representative
\* log line that contains "MOCK DATA" or "Example".
C12_UnreachableLabelled ==
    (Done /\ Valid(req) /\ StoreUnreachable) =>
        /\ resp.status = 200
        /\ \A i \in 1..Len(resp.body.log_groups) : Labelled(resp.body.log_groups[i])

\* the failure text has a marker of a connection problem
ConnectivityText(t) ==
    Occurs(StrConnectionRefused, t) \/ Occurs(StrConnect, t) \/ Occurs(StrTimeout, t)

\* the failure text has a marker of a missing table
SchemaMissingText(t) == Occurs(StrDoesNotExist, t) \/ Occurs(StrUnknownTable, t)

\* C13: a storage failure is put into one category, tried in the order
\* connectivity ("Connection refused", "connect" or "timeout" in the text),
\* schema-missing ("does not exist" or "UNKNOWN_TABLE"), generic; a text
\* with a marker of both kinds is a connectivity failure.
C13_ClassificationOrder ==
    (Done /\ Valid(req) /\ ~err.isNil) =>
        LET t == err.text
        IN /\ ConnectivityText(t) => logGroups = MockGroups
           /\ (~ConnectivityText(t) /\ SchemaMissingText(t)) =>
                 logGroups = TablesMissingGroups
           /\ (~ConnectivityText(t) /\ ~SchemaMissingText(t)) =>
                 /\ Len(logGroups) = 1
                 /\ logGroups[1].TemplateID = StrError
                 /\ logGroups[1].RepresentativeLogs[2] = StrErrorDetails \o t
           /\ MockGroups # TablesMissingGroups

\* a failure whose text has a marker of both kinds, answered with the
\* groups of the connectivity category
C13_Witness ==
    /\ Done
    /\ Valid(req)
    /\ ~err.isNil
    /\ ConnectivityText(err.text)
    /\ SchemaMissingText(err.text)
    /\ logGroups = MockGroups

\* both count maps have events
NonZeroTotals == Total(currentCounts) > 0 /\ Total(baselineCounts) > 0

\* a finite float64 above zero
Positive(x) == x.k = "num" /\ x.m > 0

\* a finite float64 below zero
Negative(x) == x.k = "num" /\ x.m < 0

\* the templates with events in the current map and none in the baseline map
NewTemplates ==
    {id \in DOMAIN currentCounts :
        currentCounts[id] > 0 /\ Lookup(baselineCounts, id) = 0}

SmoothedCurrent(id) ==
    Probability(Lookup(currentCounts, id), Total(currentCounts),
                Cardinality(AllTemplates(currentCounts, baselineCounts)))

SmoothedBaseline(id) ==
    Probability(Lookup(baselineCounts, id), Total(baselineCounts),
                Cardinality(AllTemplates(currentCounts, baselineCounts)))

\* the direction in which the smoothed share of id moved: 1 up, -1 down, 0
ShareMove(id) == FSign(FSub(SmoothedCurrent(id), SmoothedBaseline(id)))

Rose(id) == ShareMove(id) > 0

\* the position of id in the ranking
Position(id) == CHOOSE i \in 1..Len(topTemplateIDs) : topTemplateIDs[i] = id

Within(x, tol) == FLt(x, tol) /\ FGt(x, FNeg(tol))

WWithin(x, tol) == WLt(x, tol) /\ WGt(x, WNeg(tol))

\* 1e-8, a hundred times the smoothing constant of the source
SmoothingScale == Num(Base, -8 - (Digits - 1))

\* 1e-6
Millionth == Num(Base, -6 - (Digits - 1))

\* the templates whose share count / total is the same in both maps
SameShare ==
    {id \in AllTemplates(currentCounts, baselineCounts) :
        Lookup(currentCounts, id) * Total(baselineCounts)
            = Lookup(baselineCounts, id) * Total(currentCounts)}

SmoothedTotal(counts) ==
    FAdd(FromInt(Total(counts)),
         FMul(smoothing, FromInt(Cardinality(AllTemplates(currentCounts, baselineCounts)))))

\* freqBaseline + smoothing
SmoothedFrequency(id) ==
    FAdd(FDiv(FromInt(Lookup(baselineCounts, id)), FromInt(Total(baselineCounts))),
         smoothing)

\* C17: with events in both maps every kl_contribution and every
\* relative_change is finite, neither NaN nor an infinity: the smoothed
\* shares and the denominators total + smoothing * |U| and
\* freq_base + smoothing are all strictly positive.
C17_ScoresFinite ==
    (Returned /\ NonZeroTotals) =>
        /\ DOMAIN klContributions = AllTemplates(currentCounts, baselineCounts)
        /\ DOMAIN relativeChanges = AllTemplates(currentCounts, baselineCounts)
        /\ Positive(SmoothedTotal(currentCounts))
        /\ Positive(SmoothedTotal(baselineCounts))
        /\ \A id \in DOMAIN klContributions :
              /\ IsFinite(klContributions[id])
              /\ IsFinite(relativeChanges[id])
              /\ Positive(SmoothedCurrent(id))
              /\ Positive(SmoothedBaseline(id))
              /\ Positive(SmoothedFrequency(id))

\* a run over maps in which one template has events only in the current
\* map and another only in the baseline map
C17_Witness ==
    /\ Returned
    /\ NonZeroTotals
    /\ \E u, v \in DOMAIN klContributions :
          /\ Lookup(currentCounts, u) > 0 /\ Lookup(baselineCounts, u) = 0
          /\ Lookup(currentCounts, v) = 0 /\ Lookup(baselineCounts, v) > 0
          /\ IsFinite(klContributions[u]) /\ IsFinite(relativeChanges[u])
          /\ IsFinite(klContributions[v]) /\ IsFinite(relativeChanges[v])

\* the float64 sum of f over the keys S, added in some order
RECURSIVE FSumOver(_, _)
FSumOver(f, S) ==
    IF S = {} THEN FZero
    ELSE LET k == CHOOSE x \in S : TRUE
         IN FAdd(f[k], FSumOver(f, S \ {k}))

\* the rounding error allowed to a sum of contributions: five units of the
\* last but one digit the model of float64 keeps
SumTolerance == Normalize(5, -(Digits - 1))

\* C18: with events in both maps, the kl_contributions of all templates of
\* the union add up to 0 or more, within the rounding error of the
\* arithmetic, although single contributions may be negative.
C18_SumNonNegative ==
    (Returned /\ NonZeroTotals) =>
        FGt(FSumOver(klContributions, DOMAIN klContributions), FNeg(SumTolerance))

\* a run with a negative contribution whose contributions add up to more
\* than the rounding error
C18_Witness ==
    /\ Returned
    /\ NonZeroTotals
    /\ \E id \in DOMAIN klContributions :
          FLt(klContributions[id], FNeg(SumTolerance))
    /\ FGt(FSumOver(klContributions, DOMAIN klContributions), SumTolerance)

\* the storage calls of a run, in the order of the source
CallOrder == <<"GetTemplateCounts", "GetTemplateCounts", "GetRepresentativeLogs">>

\* C19: when a storage call of an AnalyzeLogs run fails (the baseline
\* counts, the current counts or the representative logs), AnalyzeLogs
\* returns the error of that call unchanged and no log group, and each of
\* the three storage calls is issued at most once per run: no call is
\* repeated and none follows a failed one.
C19_ErrorsPropagate ==
    /\ Len(calls) <= 3
    /\ \A i \in 1..Len(calls) : calls[i].op = CallOrder[i]
    /\ \A i \in 1..(Len(calls) - 1) : calls[i].err.isNil
    /\ (Len(calls) >= 1 /\ ~calls[Len(calls)].err.isNil) =>
          /\ Done
          /\ analyzed.called
          /\ analyzed.err = calls[Len(calls)].err
          /\ analyzed.groups = <<>>
          /\ err = calls[Len(calls)].err

\* a run whose third call failed on the missing table of representative
\* logs, after both count maps were read and scored
C19_Witness ==
    /\ Done
    /\ Len(calls) = 3
    /\ calls[3].err = NewError(StrRepresentativesTableMissing)
    /\ analyzed.err = NewError(StrRepresentativesTableMissing)
    /\ klContributions # EmptyMap
    /\ topTemplateIDs # <<>>

\* C20: the response of a QueryLogs that answers 200 has as many groups as
\* the analysis, or the fallback, produced, in the same order; each carries
\* the representative_logs and the relative_change of the group at its
\* position and nothing else: no template_id, no kl_contribution.
C20_ResponseShape ==
    (Done /\ resp.status = 200) =>
        /\ DOMAIN resp.body = {"log_groups"}
        /\ Len(resp.body.log_groups) = Len(logGroups)
        /\ analyzed.called /\ analyzed.err.isNil => logGroups = analyzed.groups
        /\ \A i \in 1..Len(logGroups) :
              /\ DOMAIN resp.body.log_groups[i] = {"representative_logs", "relative_change"}
              /\ resp.body.log_groups[i].representative_logs
                    = logGroups[i].RepresentativeLogs
              /\ resp.body.log_groups[i].relative_change = logGroups[i].RelativeChange

\* a response with two or more groups of the analysis that differ in
\* relative_change
C20_Witness ==
    /\ Done
    /\ resp.status = 200
    /\ err.isNil
    /\ Len(resp.body.log_groups) >= 2
    /\ resp.body.log_groups[1].relative_change # resp.body.log_groups[2].relative_change
    /\ resp.body.log_groups[1].representative_logs
          # resp.body.log_groups[2].representative_logs

RepresentativeFetches == {i \in 1..Len(calls) : calls[i].op = "GetRepresentativeLogs"}

\* C22: a run of AnalyzeLogs fetches representative logs at most once, as
\* its third storage call, after both count fetches returned without error
\* and the templates were scored and ranked; the ids it asks for are the
\* kept ids in ranking order, which are min(10, n) of the n scored ids with
\* no left-out id scoring higher than a requested one, so never all of
\* them when more than 10 were scored.
C22_FetchFollowsRanking ==
    /\ Cardinality(RepresentativeFetches) <= 1
    /\ \A i \in RepresentativeFetches :
          LET requested == SeqRange(calls[i].templateIDs)
              scored == DOMAIN currentCounts \cup DOMAIN baselineCounts
          IN /\ i = 3
             /\ \A j \in 1..2 : calls[j].op = "GetTemplateCounts" /\ calls[j].err.isNil
             /\ DOMAIN klContributions = scored
             /\ calls[i].templateIDs = topTemplateIDs
             /\ Cardinality(requested) = Len(calls[i].templateIDs)
             /\ Cardinality(requested) = Min(10, Cardinality(scored))
             /\ requested \subseteq scored
             /\ \A u \in scored \ requested : \A k \in requested :
                   ~FGt(klContributions[u], klContributions[k])
             /\ Cardinality(scored) > 10 => requested # scored

\* a run that scored more than 10 templates and asked for the logs of 10
C22_Witness ==
    /\ Len(calls) = 3
    /\ calls[3].op = "GetRepresentativeLogs"
    /\ Cardinality(DOMAIN klContributions) > 10
    /\ Len(calls[3].templateIDs) = 10
    /\ \E u \in DOMAIN klContributions : u \notin SeqRange(calls[3].templateIDs)

\* C23: when one of the two windows has no event, so that no template is
\* scored, AnalyzeLogs returns no group and no error without fetching
\* representative logs, and QueryLogs answers 200 with an empty list of
\* groups instead of made-up ones.
C23_EmptyShortCircuits ==
    (/\ Len(calls) >= 2
     /\ calls[2].err.isNil
     /\ pc # "current"
     /\ (Total(currentCounts) = 0 \/ Total(baselineCounts) = 0)) =>
        /\ Done
        /\ RepresentativeFetches = {}
        /\ analyzed.called
        /\ analyzed.err.isNil
        /\ analyzed.groups = <<>>
        /\ err.isNil
        /\ resp.status = 200
        /\ resp.body.log_groups = <<>>

\* a request whose current window has events while its baseline window has
\* none, answered with no group
C23_Witness ==
    /\ Done
    /\ Len(calls) = 2
    /\ calls[2].err.isNil
    /\ Total(currentCounts) > 0
    /\ Total(baselineCounts) = 0
    /\ resp.status = 200
    /\ resp.body.log_groups = <<>>

\* the stored events of template id with a timestamp from lo up to, but not
\* including, hi
RECURSIVE EventsIn(_, _, _)
EventsIn(id, lo, hi) ==
    IF lo >= hi THEN 0
    ELSE (IF <<id, lo>> \in DOMAIN rows THEN rows[<<id, lo>>] ELSE 0)
            + EventsIn(id, lo + 1, hi)

\* both count fetches of the run have returned
BothCounted == Len(calls) >= 2 /\ calls[2].err.isNil /\ pc # "current"

\* C24: for a request with the window [start, end), the counts of the
\* current window are those of the events with start <= t < end and the
\* counts of the baseline window those of the events with
\* start - (end - start) <= t < start: no event is counted in both, every
\* event from start - (end - start) up to end is counted in exactly one,
\* and an event at start counts for the current window only.
C24_HalfOpenWindows ==
    BothCounted =>
        LET start == req.StartTime
            end == req.EndTime
        IN \A r \in DOMAIN rows :
              /\ Lookup(currentCounts, r[1]) = EventsIn(r[1], start, end)
              /\ Lookup(baselineCounts, r[1]) = EventsIn(r[1], start - (end - start), start)
              /\ InWindow(r[2], calls[2].startTime, calls[2].endTime)
                    <=> (start <= r[2] /\ r[2] < end)
              /\ InWindow(r[2], calls[1].startTime, calls[1].endTime)
                    <=> (start - (end - start) <= r[2] /\ r[2] < start)

MinusOne == WFromInt(-1)

\* the templates with events in the baseline map and none in the current map
VanishedTemplates ==
    {id \in DOMAIN baselineCounts :
        baselineCounts[id] > 0 /\ Lookup(currentCounts, id) = 0}

\* C26: with events in both maps the relative_change of every template is
\* a finite number strictly greater than -1; that of a template with events
\* in the baseline map and none in the current map is negative and above -1.
C26_RelativeChangeAboveMinusOne ==
    (Returned /\ NonZeroTotals) =>
        /\ \A id \in DOMAIN relativeChanges :
              /\ IsFinite(relativeChanges[id])
              /\ WGt(relativeChanges[id], MinusOne)
        /\ \A id \in VanishedTemplates :
              /\ id \in DOMAIN relativeChanges
              /\ Negative(relativeChanges[id])
              /\ relativeChanges[id] # MinusOne

\* a run in which the only template of the baseline map vanished: its
\* whole share is lost and its relative_change is within a millionth of -1
C26_Witness ==
    /\ Returned
    /\ NonZeroTotals
    /\ \E id \in VanishedTemplates :
          /\ baselineCounts[id] = Total(baselineCounts)
          /\ WGt(relativeChanges[id], MinusOne)
          /\ WLt(relativeChanges[id], WAdd(MinusOne, Widen(Millionth)))

\* "[warning]  Hover log database encountered an error. Please contact support."
StrHoverError ==
    <<"[warning]", " ", " ", "H", "o", "v", "e", "r", " ", "l", "o", "g", " ", "d",
      "a", "t", "a", "b", "a", "s", "e", " ", "e", "n", "c", "o", "u", "n", "t",
      "e", "r", "e", "d", " ", "a", "n", " ", "e", "r", "r", "o", "r", ".", " ",
      "P", "l", "e", "a", "s", "e", " ", "c", "o", "n", "t", "a", "c", "t", " ",
      "s", "u", "p", "p", "o", "r", "t", ".">>

\* the texts a failing storage call of the driver comes with
RawFailures ==
    QueryFailures \cup ContextErrors("canceled") \cup ContextErrors("deadline")

\* an error text of neither the connectivity nor the missing-table category
GenericCategory(text) == ~IsConnectivity(text) /\ ~IsTablesMissing(text)

\* C28: a storage failure of the generic category yields exactly one made-up
\* group with relative_change 0 and kl_contribution 0; its representative
\* logs are the fixed generic message and then a line that ends with the
\* text of the failure as the driver gave it; the response carries that
\* one group.
C28_GenericFailureGroup ==
    (Done /\ Valid(req) /\ ~err.isNil /\ GenericCategory(err.text)) =>
        /\ err \in RawFailures
        /\ Len(calls) >= 1
        /\ calls[Len(calls)].err = err
        /\ Len(logGroups) = 1
        /\ logGroups[1].RelativeChange = WZero
        /\ logGroups[1].KLContribution = FZero
        /\ Len(logGroups[1].RepresentativeLogs) = 2
        /\ logGroups[1].RepresentativeLogs[1] = StrHoverError
        /\ logGroups[1].RepresentativeLogs[2] = StrErrorDetails \o err.text
        /\ containsStr(logGroups[1].RepresentativeLogs[2], err.text)
        /\ resp.status = 200
        /\ Len(resp.body.log_groups) = 1
        /\ resp.body.log_groups[1].relative_change = WZero
        /\ resp.body.log_groups[1].representative_logs
              = <<StrHoverError, StrErrorDetails \o err.text>>

\* a request whose query of the current window failed on a syntax error,
\* after the baseline counts were read
C28_Witness ==
    /\ Done
    /\ Valid(req)
    /\ Len(calls) = 2
    /\ err = NewError(TextSyntaxError)
    /\ GenericCategory(err.text)
    /\ Len(logGroups) = 1
    /\ containsStr(logGroups[1].RepresentativeLogs[2], TextSyntaxError)

\* the call c is the count fetch of the baseline window of request r: the
\* window that ends where the window of r starts
IsBaselineFetch(c, r) ==
    /\ c.op = "GetTemplateCounts"
    /\ c.endTime = r.StartTime
    /\ c.startTime = BaselineWindow(r.StartTime, r.EndTime).startTime

\* the call c is the count fetch of the window of request r
IsCurrentFetch(c, r) ==
    /\ c.op = "GetTemplateCounts"
    /\ c.startTime = r.StartTime
    /\ c.endTime = r.EndTime

\* a step that changes the calls of the run: it issues the next call in
\* the order baseline, current, representatives, each after the call
\* before it returned without error; or the call in flight fails; or the
\* run is over and the next request starts without a call
CallStep ==
    \/ /\ calls = <<>>
       /\ Len(calls') = 1
       /\ IsBaselineFetch(calls'[1], req')
       /\ calls'[1].err.isNil
    \/ /\ Len(calls) = 1
       /\ calls[1].err.isNil
       /\ Len(calls') = 2
       /\ calls'[1] = calls[1]
       /\ IsCurrentFetch(calls'[2], req)
       /\ calls'[2].err.isNil
       /\ req' = req
    \/ /\ Len(calls) = 2
       /\ calls[2].err.isNil
       /\ Len(calls') = 3
       /\ calls'[1] = calls[1]
       /\ calls'[2] = calls[2]
       /\ calls'[3].op = "GetRepresentativeLogs"
       /\ calls'[3].err.isNil
       /\ req' = req
    \/ /\ calls # <<>>
       /\ calls[Len(calls)].err.isNil
       /\ Len(calls') = Len(calls)
       /\ \A i \in 1..(Len(calls) - 1) : calls'[i] = calls[i]
       /\ ~calls'[Len(calls)].err.isNil
       /\ pc' = "done"
    \/ /\ pc = "done"
       /\ calls' = <<>>
       /\ pc' = "idle"

\* C29: within one AnalyzeLogs run the storage calls are issued strictly in
\* the order baseline count fetch, current count fetch, representative-log
\* fetch, each only after the one before it returned without error; a
\* failed call ends the run, so no storage call is issued after the first
\* failing one.
C29_CallsInOrder == [][calls' # calls => CallStep]_vars

\* a run that ended on a failed baseline fetch: the fetch of the current
\* window was never issued and no counts were read
C29_Witness ==
    /\ Done
    /\ Len(calls) = 1
    /\ IsBaselineFetch(calls[1], req)
    /\ ~calls[1].err.isNil
    /\ analyzed.called
    /\ currentCounts = EmptyMap
    /\ baselineCounts = EmptyMap

\* the call c as it was issued, before its outcome
Issued(c) == [c EXCEPT !.err = NilError]

\* the calls and the response of the finished call f are those of a
\* QueryLogs that serves the request of f alone: it issues the calls of that
\* request in their order, the store answers each call that f saw
\* succeed from its rows, and the response is the fallback for the error f
\* saw, or the groups of one of the rankings of the scores
RunsAlone(f) ==
    LET r == f.req
        n == Len(f.calls)
        baseline == BaselineWindow(r.StartTime, r.EndTime)
        b == GetTemplateCounts(rows, baseline.startTime, baseline.endTime)
        c == GetTemplateCounts(rows, r.StartTime, r.EndTime)
        kl == CalculateKLDivergence(c, b)
        rel == CalculateRelativeChanges(c, b)
    IN IF Rejection(r).status # 0 THEN n = 0 /\ f.resp = Rejection(r)
       ELSE IF ~analyzer THEN n = 0 /\ f.resp = Response(<<>>, analyzerError)
       ELSE /\ n >= 1
            /\ Issued(f.calls[1]) = CountsCall(baseline.startTime, baseline.endTime)
            /\ IF ~f.calls[1].err.isNil
               THEN n = 1 /\ f.resp = Response(<<>>, f.calls[1].err)
               ELSE /\ n >= 2
                    /\ Issued(f.calls[2]) = CountsCall(r.StartTime, r.EndTime)
                    /\ IF ~f.calls[2].err.isNil
                       THEN n = 2 /\ f.resp = Response(<<>>, f.calls[2].err)
                       ELSE \E sortedTemplates \in SortedTemplates(kl) :
                               LET ids == TemplateIDs(TakeTop(sortedTemplates))
                               IN IF ids = <<>>
                                  THEN n = 2 /\ f.resp = Response(<<>>, NilError)
                                  ELSE /\ n = 3
                                       /\ Issued(f.calls[3]) = RepresentativesCall(ids)
                                       /\ f.resp =
                                             IF ~f.calls[3].err.isNil
                                             THEN Response(<<>>, f.calls[3].err)
                                             ELSE Response(
                                                     BuildLogGroups(
                                                         ids,
                                                         GetRepresentativeLogs(table, ids),
                                                         rel, kl),
                                                     NilError)

\* a call that finishes is answered as if it had been served alone
AnsweredAsAlone ==
    \A i \in Flights :
       (flights[i].pc # "done" /\ flights'[i].pc = "done") => RunsAlone(flights'[i])

\* a step writes the locals of one call at most, and neither the handler
\* nor the store
WritesOwnLocals ==
    /\ \E i \in Flights : \A j \in Flights \ {i} : flights'[j] = flights[j]
    /\ <<analyzer, analyzerError, rows, table>>' = <<analyzer, analyzerError, rows, table>>

\* C27: calls served at the same time do not interfere.  Under every
\* interleaving of the steps of the calls, each finished call issued the
\* storage calls of its own request and got the response it would get
\* when served alone with the same outcomes of its calls; every step
\* writes the local variables of one call only and leaves the handler and
\* the store as they are.
C27_NoInterference == [][WritesOwnLocals /\ AnsweredAsAlone]_vars

\* two calls with different time ranges that were in flight at the same
\* time: the first is answered with groups of the analysis while the
\* second, which arrived when the first was in flight, got the fallback
\* for a failed query of its current window
C27_Witness ==
    /\ flights[1].pc = "done"
    /\ flights[2].pc = "done"
    /\ flights[2].alongside
    /\ flights[1].req # flights[2].req
    /\ Len(flights[1].calls) = 3
    /\ flights[1].calls[3].err.isNil
    /\ Len(flights[1].resp.body.log_groups) >= 2
    /\ Len(flights[2].calls) = 2
    /\ ~flights[2].calls[2].err.isNil
    /\ flights[2].resp # flights[1].resp

====
